---------------------------- MODULE Spec2Model ----------------------------
(***************************************************************************)
(* A model of the crypto analyzer backend:                                 *)
(*   - OrderBookService (services/orderbook_service.py): the per-pair      *)
(*     order-book cache, its lazy fetch and its background warm, run by    *)
(*     several threads that share one service object;                      *)
(*   - RateLimiter (services/indodax_service.py);                          *)
(*   - the scoring functions of BandarmologyService,                       *)
(*     TechnicalAnalysisService and RecommendationService.                 *)
(* Strings that the code converts (pair ids) are sequences of one-letter   *)
(* strings; fractions are reduced pairs <<numerator, denominator>>.        *)
(***************************************************************************)
EXTENDS Integers, Sequences, FiniteSets, TLC

VARIABLES
    \* ---- OrderBookService: the shared object ----
    cache,              \* self.cache: pair -> summary
    cache_timestamps,   \* self.cache_timestamps: pair -> time of capture
    cache_timestamp,    \* self.cache_timestamp (global, None = -1)
    now,                \* the clock read by datetime.now(), in seconds
    \* ---- one record of locals per thread inside the service ----
    pc,                 \* where the thread is
    op,                 \* which entry point it runs
    pairs,              \* fetch_order_books: the argument
    idx,                \* fetch_order_books: position of the cache-check loop
    result,             \* fetch_order_books: result
    pairs_to_fetch,     \* fetch_order_books: pairs_to_fetch / _async: pairs
    bstart,             \* _fetch_order_books_async: i (1-based start of the batch)
    tasks,              \* _fetch_order_books_async: the batch's tasks and results
    k,                  \* _fetch_order_books_async: position of the zip loop
    all_results,        \* _fetch_order_books_async: all_results
    stamp,              \* the value datetime.now() returned at line 90, before it is stored
    \* ---- RateLimiter ----
    calls,              \* self.calls
    clock,              \* the clock read by time.time(), in seconds
    passed,             \* history: the times at which calls got past wait_if_needed
    \* ---- scoring functions ----
    call,               \* the function applied and its arguments
    ret,                \* what it returned
    \* ---- IndodaxService._make_request ----
    request             \* the request in progress: attempts made, last answer, outcome

cacheVars  == <<cache, cache_timestamps, cache_timestamp, now>>
localVars  == <<pc, op, pairs, idx, result, pairs_to_fetch, bstart, tasks, k,
                all_results, stamp>>
rateVars   == <<calls, clock, passed>>
scoreVars  == <<call, ret>>
requestVars == <<request>>
vars       == <<cacheVars, localVars, rateVars, scoreVars, requestVars>>

-----------------------------------------------------------------------------
(* Bounds of the model *)

\* the threads that share the service: request handlers and the scheduler's worker
Threads == {"t1", "t2"}

\* the longest argument of fetch_order_books
MaxPairs == 2

\* the clock advances this many times
MaxTicks == 2

\* the clock advances in steps of this many seconds
TickSteps == {15}

-----------------------------------------------------------------------------
(* Helpers: dictionaries, fractions *)

EmptyMap == [x \in {} |-> 0]

\* d[key] = value
Put(d, key, value) ==
    [x \in (DOMAIN d) \cup {key} |-> IF x = key THEN value ELSE d[x]]

\* d.update(e)
Update(d, e) ==
    [x \in (DOMAIN d) \cup (DOMAIN e) |-> IF x \in DOMAIN e THEN e[x] ELSE d[x]]

\* d.get(key, default)
Get(d, key, default) == IF key \in DOMAIN d THEN d[key] ELSE default

Min(a, b) == IF a < b THEN a ELSE b
Max(a, b) == IF a > b THEN a ELSE b
Abs(a) == IF a < 0 THEN -a ELSE a

RECURSIVE Gcd(_, _)
Gcd(a, b) == IF b = 0 THEN a ELSE Gcd(b, a % b)

\* the fraction n/d (d # 0), reduced, with the sign in the numerator
Frac(n, d) ==
    LET g == Gcd(Abs(n), Abs(d))
        s == IF d < 0 THEN -1 ELSE 1
    IN  IF n = 0 THEN <<0, 1>> ELSE <<(s * n) \div g, (s * d) \div g>>

Zero == <<0, 1>>

-----------------------------------------------------------------------------
(* Pair ids *)

\* str.lower() on one character
LowerChar(ch) ==
    CASE ch = "B" -> "b" [] ch = "T" -> "t" [] ch = "C" -> "c"
      [] ch = "I" -> "i" [] ch = "D" -> "d" [] ch = "R" -> "r"
      [] ch = "E" -> "e" [] ch = "H" -> "h"
      [] OTHER -> ch

\* str.lower()
Lower(s) == [n \in 1..Len(s) |-> LowerChar(s[n])]

\* str.replace(old, '') for a one-character old
RECURSIVE Remove(_, _)
Remove(s, old) ==
    IF s = <<>> THEN <<>>
    ELSE IF Head(s) = old THEN Remove(Tail(s), old)
         ELSE <<Head(s)>> \o Remove(Tail(s), old)

btcidr == <<"b", "t", "c", "i", "d", "r">>
ethidr == <<"e", "t", "h", "i", "d", "r">>
BTCIDR == <<"B", "T", "C", "I", "D", "R">>

\* what callers pass as a pair
RawPairs == {btcidr, BTCIDR, ethidr}

\* the arguments of fetch_order_books
PairLists == UNION {[1..n -> RawPairs] : n \in 1..MaxPairs}

\* ticker_id values of the exchange's /api/pairs answer
btc_idr == <<"b", "t", "c", "_", "i", "d", "r">>
eth_idr == <<"e", "t", "h", "_", "i", "d", "r">>

\* [pair['ticker_id'].replace('_', '').lower() for pair in pairs_data]
PairsOfTickers(ids) == [n \in 1..Len(ids) |-> Lower(Remove(ids[n], "_"))]

-----------------------------------------------------------------------------
(* Order books and their summaries *)

\* _empty_order_book()
EmptyOrderBook ==
    [total_buy_orders |-> 0, total_sell_orders |-> 0,
     total_buy_amount |-> 0, total_sell_amount |-> 0,
     total_buy_value |-> 0, total_sell_value |-> 0,
     highest_bid |-> 0, lowest_ask |-> 0,
     spread |-> 0, spread_percent |-> Zero, buy_sell_ratio |-> Zero]

\* sum(float(order[1]) for order in orders)
RECURSIVE SumAmount(_)
SumAmount(orders) ==
    IF orders = <<>> THEN 0 ELSE Head(orders)[2] + SumAmount(Tail(orders))

\* sum(float(order[0]) * float(order[1]) for order in orders)
RECURSIVE SumValue(_)
SumValue(orders) ==
    IF orders = <<>> THEN 0
    ELSE Head(orders)[1] * Head(orders)[2] + SumValue(Tail(orders))

\* a deliberately wrong variant: an order book without sell-side value counts as balanced
ProcessOrderBookBalanced(data) ==
    LET buy_orders        == Get(data, "buy", <<>>)
        sell_orders       == Get(data, "sell", <<>>)
        total_buy_value   == SumValue(buy_orders)
        total_sell_value  == SumValue(sell_orders)
        highest_bid       == IF buy_orders # <<>> THEN buy_orders[1][1] ELSE 0
        lowest_ask        == IF sell_orders # <<>> THEN sell_orders[1][1] ELSE 0
        spread            == IF highest_bid # 0 /\ lowest_ask # 0
                             THEN lowest_ask - highest_bid ELSE 0
    IN  IF ~data.numeric THEN EmptyOrderBook
        ELSE [total_buy_orders  |-> Len(buy_orders),
              total_sell_orders |-> Len(sell_orders),
              total_buy_amount  |-> SumAmount(buy_orders),
              total_sell_amount |-> SumAmount(sell_orders),
              total_buy_value   |-> total_buy_value,
              total_sell_value  |-> total_sell_value,
              highest_bid       |-> highest_bid,
              lowest_ask        |-> lowest_ask,
              spread            |-> spread,
              spread_percent    |-> IF highest_bid # 0
                                    THEN Frac(spread * 100, highest_bid) ELSE Zero,
              buy_sell_ratio    |-> IF total_sell_value # 0
                                    THEN Frac(total_buy_value, total_sell_value)
                                    ELSE <<1, 1>>]

\* A depth answer is a dictionary with the keys buy and sell, each possibly
\* missing, and the key numeric: whether float() accepts every entry.
\* _process_order_book(data); the except branch is the non-numeric case.
ProcessOrderBook(data) ==
    LET buy_orders        == Get(data, "buy", <<>>)
        sell_orders       == Get(data, "sell", <<>>)
        total_buy_value   == SumValue(buy_orders)
        total_sell_value  == SumValue(sell_orders)
        highest_bid       == IF buy_orders # <<>> THEN buy_orders[1][1] ELSE 0
        lowest_ask        == IF sell_orders # <<>> THEN sell_orders[1][1] ELSE 0
        spread            == IF highest_bid # 0 /\ lowest_ask # 0
                             THEN lowest_ask - highest_bid ELSE 0
    IN  IF ~data.numeric THEN EmptyOrderBook
        ELSE [total_buy_orders  |-> Len(buy_orders),
              total_sell_orders |-> Len(sell_orders),
              total_buy_amount  |-> SumAmount(buy_orders),
              total_sell_amount |-> SumAmount(sell_orders),
              total_buy_value   |-> total_buy_value,
              total_sell_value  |-> total_sell_value,
              highest_bid       |-> highest_bid,
              lowest_ask        |-> lowest_ask,
              spread            |-> spread,
              spread_percent    |-> IF highest_bid # 0
                                    THEN Frac(spread * 100, highest_bid) ELSE Zero,
              buy_sell_ratio    |-> IF total_sell_value # 0
                                    THEN Frac(total_buy_value, total_sell_value)
                                    ELSE Zero]

BookA == [buy |-> << <<100, 50>>, <<99, 30>> >>,
          sell |-> << <<101, 10>>, <<102, 5>> >>, numeric |-> TRUE]
BookB == [buy |-> << <<200, 1>> >>,
          sell |-> << <<210, 4>> >>, numeric |-> TRUE]
BookBad == [buy |-> << <<100, 50>> >>,
            sell |-> << <<101, 10>> >>, numeric |-> FALSE]

\* What the exchange may answer to GET /api/depth/<pair>: a status, whether
\* response.json() can parse the body, and the parsed body. Status 0 stands
\* for no answer at all (timeout, connection error).
Responses ==
    {[status |-> 200, json |-> TRUE,  body |-> BookA],
     [status |-> 200, json |-> TRUE,  body |-> BookB],
     [status |-> 200, json |-> TRUE,  body |-> BookBad],
     [status |-> 200, json |-> FALSE, body |-> BookBad],
     [status |-> 500, json |-> FALSE, body |-> BookBad],
     [status |-> 0,   json |-> FALSE, body |-> BookBad]}

\* the fetch got a usable order book
Succeeded(resp) == resp.status = 200 /\ resp.json /\ resp.body.numeric

\* What a task of asyncio.gather(..., return_exceptions=True) yields: a value,
\* or the exception the coroutine raised.
Value(v) == [exception |-> FALSE, value |-> v]
Raised    == [exception |-> TRUE, value |-> EmptyOrderBook]

\* a deliberately wrong variant: a failed request raises out of the coroutine instead of yielding
\* the empty summary
FetchSingleOrderBookRaises(resp) ==
    IF resp.status = 200 /\ resp.json
    THEN Value(ProcessOrderBook(resp.body))
    ELSE Raised

\* _fetch_single_order_book(session, pair): every exception is caught inside
FetchSingleOrderBook(resp) ==
    IF resp.status = 0 THEN Value(EmptyOrderBook)
    ELSE IF resp.status = 200
         THEN IF ~resp.json THEN Value(EmptyOrderBook)
              ELSE Value(ProcessOrderBook(resp.body))
         ELSE Value(EmptyOrderBook)

-----------------------------------------------------------------------------
(* OrderBookService *)

\* self.cache_duration = timedelta(seconds=30)
CacheDuration == 30

\* batch_size = 50
BatchSize == 50

\* a deliberately wrong variant: an entry that is exactly cache_duration old still counts as fresh
IsPairCacheValidInclusive(stamps, pair, t) ==
    IF pair \notin DOMAIN stamps THEN FALSE
    ELSE t - stamps[pair] <= 30

\* _is_pair_cache_valid(pair), the clock reading t
IsPairCacheValid(stamps, pair, t) ==
    IF pair \notin DOMAIN stamps THEN FALSE
    ELSE t - stamps[pair] < CacheDuration

\* batch = pairs[i:i + batch_size], i = first - 1
\* a deliberately wrong variant: a batch takes every pair that is left
BatchToTheEnd(ps, first) == SubSeq(ps, first, Len(ps))

Batch(ps, first) == SubSeq(ps, first, Min(first + BatchSize - 1, Len(ps)))

\* tasks = [self._fetch_single_order_book(session, pair) for pair in batch]:
\* every request of the batch is sent when gather starts the tasks
NewTasks(batch) ==
    [n \in 1..Len(batch) |->
        [pair |-> batch[n], st |-> "inflight", ok |-> FALSE,
         out |-> Value(EmptyOrderBook)]]

NoTasks == <<>>

\* {pair: self._empty_order_book() for pair in pairs}
AllEmpty(ps) == [x \in {ps[n] : n \in 1..Len(ps)} |-> EmptyOrderBook]

\* no attempt of a request has been answered yet
NoResponse == [kind |-> "none", status |-> 0, json |-> FALSE]

Init ==
    /\ cache = EmptyMap
    /\ cache_timestamps = EmptyMap
    /\ cache_timestamp = -1
    /\ now = 0
    /\ pc = [t \in Threads |-> "idle"]
    /\ op = [t \in Threads |-> "none"]
    /\ pairs = [t \in Threads |-> <<>>]
    /\ idx = [t \in Threads |-> 0]
    /\ result = [t \in Threads |-> EmptyMap]
    /\ pairs_to_fetch = [t \in Threads |-> <<>>]
    /\ bstart = [t \in Threads |-> 0]
    /\ tasks = [t \in Threads |-> NoTasks]
    /\ k = [t \in Threads |-> 0]
    /\ all_results = [t \in Threads |-> EmptyMap]
    /\ stamp = [t \in Threads |-> 0]
    /\ calls = <<>>
    /\ clock = 0
    /\ passed = <<>>
    /\ call = [fn |-> "none", arg |-> 0]
    /\ ret = 0
    /\ request = [pc |-> "idle", attempts |-> 0, last |-> NoResponse,
                  outcome |-> "none"]

\* a thread enters fetch_order_books(ps)
Call(t, ps) ==
    /\ pc[t] = "idle"
    /\ pc' = [pc EXCEPT ![t] = "check"]
    /\ op' = [op EXCEPT ![t] = "fetch_order_books"]
    /\ pairs' = [pairs EXCEPT ![t] = ps]
    /\ idx' = [idx EXCEPT ![t] = 1]
    /\ result' = [result EXCEPT ![t] = EmptyMap]
    /\ pairs_to_fetch' = [pairs_to_fetch EXCEPT ![t] = <<>>]
    /\ UNCHANGED <<bstart, tasks, k, all_results, stamp>>
    /\ UNCHANGED <<cacheVars, rateVars, scoreVars, requestVars>>

\* one round of the loop of lines 30-37; after the last round, line 40
CheckPair(t) ==
    /\ pc[t] = "check"
    /\ LET pair_lower == Lower(pairs[t][idx[t]])
           valid      == IsPairCacheValid(cache_timestamps, pair_lower, now)
           res        == IF valid
                         THEN Put(result[t], pair_lower,
                                  Get(cache, pair_lower, EmptyOrderBook))
                         ELSE result[t]
           tofetch    == IF valid THEN pairs_to_fetch[t]
                         ELSE Append(pairs_to_fetch[t], pair_lower)
       IN  /\ result' = [result EXCEPT ![t] = res]
           /\ pairs_to_fetch' = [pairs_to_fetch EXCEPT ![t] = tofetch]
           /\ idx' = [idx EXCEPT ![t] = IF @ < Len(pairs[t]) THEN @ + 1 ELSE 0]
           /\ pc' = [pc EXCEPT ![t] =
                        IF idx[t] < Len(pairs[t]) THEN "check"
                        ELSE IF tofetch # <<>> THEN "sync" ELSE "done"]
    /\ UNCHANGED <<op, pairs, bstart, tasks, k, all_results, stamp>>
    /\ UNCHANGED <<cacheVars, rateVars, scoreVars, requestVars>>

\* a deliberately wrong variant: the warm skips the pairs whose entry is fresh
FetchAndCacheAllLazy(t, listed, ids) ==
    /\ pc[t] = "idle"
    /\ \A u \in Threads : op[u] # "fetch_and_cache_all"
    /\ op' = [op EXCEPT ![t] = "fetch_and_cache_all"]
    /\ pairs' = [pairs EXCEPT ![t] = <<>>]
    /\ idx' = [idx EXCEPT ![t] = 0]
    /\ result' = [result EXCEPT ![t] = EmptyMap]
    /\ LET Stale(p) == ~IsPairCacheValid(cache_timestamps, p, now)
           stale    == SelectSeq(PairsOfTickers(ids), Stale)
       IN  /\ pairs_to_fetch' = [pairs_to_fetch EXCEPT
                                    ![t] = IF listed THEN stale ELSE <<>>]
           /\ pc' = [pc EXCEPT
                        ![t] = IF listed /\ stale # <<>> THEN "sync" ELSE "done"]
    /\ UNCHANGED <<bstart, tasks, k, all_results, stamp>>
    /\ UNCHANGED <<cacheVars, rateVars, scoreVars, requestVars>>

\* the scheduler's worker enters fetch_and_cache_all(); listed: whether the
\* pair list could be obtained (status 200 and no exception), ids: the
\* ticker_id values of the answer. The job is added with the scheduler's
\* default of one running instance at a time.
FetchAndCacheAll(t, listed, ids) ==
    /\ pc[t] = "idle"
    /\ \A u \in Threads : op[u] # "fetch_and_cache_all"
    /\ op' = [op EXCEPT ![t] = "fetch_and_cache_all"]
    /\ pairs' = [pairs EXCEPT ![t] = <<>>]
    /\ idx' = [idx EXCEPT ![t] = 0]
    /\ result' = [result EXCEPT ![t] = EmptyMap]
    /\ pairs_to_fetch' = [pairs_to_fetch EXCEPT ![t] =
                             IF listed THEN PairsOfTickers(ids) ELSE <<>>]
    /\ pc' = [pc EXCEPT ![t] = IF listed THEN "sync" ELSE "done"]
    /\ UNCHANGED <<bstart, tasks, k, all_results, stamp>>
    /\ UNCHANGED <<cacheVars, rateVars, scoreVars, requestVars>>

\* what fetch_order_books does with the value of _fetch_order_books_sync
\* (line 43); fetch_and_cache_all drops it
Returned(t, fetched) ==
    IF op[t] = "fetch_order_books" THEN Update(result[t], fetched) ELSE result[t]

\* _fetch_order_books_sync(pairs) up to the first batch of the coroutine.
\* raises: creating the event loop or the client session fails, and the
\* except branch of line 64 answers for every pair.
SyncFetch(t, raises) ==
    /\ pc[t] = "sync"
    /\ IF raises
       THEN /\ result' = [result EXCEPT
                             ![t] = Returned(t, AllEmpty(pairs_to_fetch[t]))]
            /\ pc' = [pc EXCEPT ![t] = "done"]
            /\ pairs_to_fetch' = [pairs_to_fetch EXCEPT ![t] = <<>>]
            /\ UNCHANGED <<bstart, tasks, all_results>>
       ELSE /\ all_results' = [all_results EXCEPT ![t] = EmptyMap]
            /\ bstart' = [bstart EXCEPT ![t] = 1]
            /\ tasks' = [tasks EXCEPT
                            ![t] = NewTasks(Batch(pairs_to_fetch[t], 1))]
            /\ pc' = [pc EXCEPT ![t] = "gather"]
            /\ UNCHANGED <<result, pairs_to_fetch>>
    /\ UNCHANGED <<op, pairs, idx, k, stamp>>
    /\ UNCHANGED <<cacheVars, rateVars, scoreVars, requestVars>>

\* the request of task j is answered and the task ends (lines 103-114);
\* gather returns once every task of the batch has ended (line 80)
Respond(t, j, resp) ==
    /\ pc[t] = "gather"
    /\ j \in 1..Len(tasks[t])
    /\ tasks[t][j].st = "inflight"
    /\ LET ended == [tasks[t] EXCEPT
                        ![j] = [pair |-> @.pair, st |-> "done",
                                ok |-> Succeeded(resp),
                                out |-> FetchSingleOrderBook(resp)]]
           all   == \A n \in 1..Len(ended) : ended[n].st = "done"
       IN  /\ tasks' = [tasks EXCEPT ![t] = ended]
           /\ pc' = [pc EXCEPT ![t] = IF all THEN "store" ELSE "gather"]
           /\ k' = [k EXCEPT ![t] = IF all THEN 1 ELSE @]
    /\ UNCHANGED <<op, pairs, idx, result, pairs_to_fetch, bstart,
                   all_results, stamp>>
    /\ UNCHANGED <<cacheVars, rateVars, scoreVars, requestVars>>

\* the end of one round of the zip loop (line 82): the next pair of the batch,
\* or lines 93-94, or the end of the loop of line 77
Advance(t) ==
    IF k[t] < Len(tasks[t])
    THEN /\ k' = [k EXCEPT ![t] = @ + 1]
         /\ pc' = [pc EXCEPT ![t] = "store"]
         /\ UNCHANGED <<bstart, tasks>>
    ELSE IF (bstart[t] - 1) + BatchSize < Len(pairs_to_fetch[t])
         THEN /\ pc' = [pc EXCEPT ![t] = "pause"]
              /\ UNCHANGED <<k, bstart, tasks>>
         ELSE /\ pc' = [pc EXCEPT ![t] = "finish"]
              /\ UNCHANGED <<k, bstart, tasks>>

\* a deliberately wrong variant: a failed pair raises out of the loop, and the except branch of
\* _fetch_order_books_sync answers with the empty summary for every pair
StoreResultFailFast(t) ==
    /\ pc[t] = "store"
    /\ LET task == tasks[t][k[t]]
       IN  IF ~task.ok
           THEN /\ result' = [result EXCEPT
                                 ![t] = Returned(t, AllEmpty(pairs_to_fetch[t]))]
                /\ pc' = [pc EXCEPT ![t] = "done"]
                /\ UNCHANGED <<cache, all_results, k, bstart, tasks>>
           ELSE /\ all_results' = [all_results EXCEPT
                                      ![t] = Put(@, task.pair, task.out.value)]
                /\ cache' = Put(cache, task.pair, task.out.value)
                /\ pc' = [pc EXCEPT ![t] = "clock"]
                /\ UNCHANGED <<result, k, bstart, tasks>>
    /\ UNCHANGED <<op, pairs, idx, pairs_to_fetch, stamp>>
    /\ UNCHANGED <<cache_timestamps, cache_timestamp, now, rateVars, scoreVars, requestVars>>

\* a deliberately wrong variant: an empty summary evicts the pair's entry instead of replacing it
StoreResultEvict(t) ==
    /\ pc[t] = "store"
    /\ LET task == tasks[t][k[t]]
       IN  /\ all_results' = [all_results EXCEPT
                                 ![t] = Put(@, task.pair, task.out.value)]
           /\ cache' = IF task.out.value = EmptyOrderBook
                       THEN [x \in (DOMAIN cache) \ {task.pair} |-> cache[x]]
                       ELSE Put(cache, task.pair, task.out.value)
           /\ pc' = [pc EXCEPT ![t] = "clock"]
           /\ UNCHANGED <<k, bstart, tasks>>
    /\ UNCHANGED <<op, pairs, idx, result, pairs_to_fetch, stamp>>
    /\ UNCHANGED <<cache_timestamps, cache_timestamp, now, rateVars, scoreVars, requestVars>>

\* a deliberately wrong variant: the summary of a fetched pair reaches all_results only, the
\* assignment to self.cache[pair] of line 89 is left out
StoreResultUncached(t) ==
    /\ pc[t] = "store"
    /\ LET task == tasks[t][k[t]]
       IN  IF task.out.exception
           THEN /\ all_results' = [all_results EXCEPT
                                      ![t] = Put(@, task.pair, EmptyOrderBook)]
                /\ Advance(t)
           ELSE /\ all_results' = [all_results EXCEPT
                                      ![t] = Put(@, task.pair, task.out.value)]
                /\ pc' = [pc EXCEPT ![t] = "clock"]
                /\ UNCHANGED <<k, bstart, tasks>>
    /\ UNCHANGED <<op, pairs, idx, result, pairs_to_fetch, stamp>>
    /\ UNCHANGED <<cache, cache_timestamps, cache_timestamp, now, rateVars, scoreVars, requestVars>>

\* lines 83-89 for the pair at position k of the batch
StoreResult(t) ==
    /\ pc[t] = "store"
    /\ LET task == tasks[t][k[t]]
       IN  IF task.out.exception
           THEN /\ all_results' = [all_results EXCEPT
                                      ![t] = Put(@, task.pair, EmptyOrderBook)]
                /\ Advance(t)
                /\ UNCHANGED cache
           ELSE /\ all_results' = [all_results EXCEPT
                                      ![t] = Put(@, task.pair, task.out.value)]
                /\ cache' = Put(cache, task.pair, task.out.value)
                /\ pc' = [pc EXCEPT ![t] = "clock"]
                /\ UNCHANGED <<k, bstart, tasks>>
    /\ UNCHANGED <<op, pairs, idx, result, pairs_to_fetch, stamp>>
    /\ UNCHANGED <<cache_timestamps, cache_timestamp, now, rateVars, scoreVars, requestVars>>

\* asyncio.sleep(0.1) of line 94 is over: the next round of the loop of line
\* 77 creates the tasks of the next batch and gathers them
Pause(t) ==
    /\ pc[t] = "pause"
    /\ bstart' = [bstart EXCEPT ![t] = @ + BatchSize]
    /\ tasks' = [tasks EXCEPT
                    ![t] = NewTasks(Batch(pairs_to_fetch[t],
                                          bstart[t] + BatchSize))]
    /\ pc' = [pc EXCEPT ![t] = "gather"]
    /\ UNCHANGED <<op, pairs, idx, result, pairs_to_fetch, k, all_results,
                   stamp>>
    /\ UNCHANGED <<cacheVars, rateVars, scoreVars, requestVars>>

\* line 90, the right-hand side: datetime.now()
ReadClock(t) ==
    /\ pc[t] = "clock"
    /\ stamp' = [stamp EXCEPT ![t] = now]
    /\ pc' = [pc EXCEPT ![t] = "stamp"]
    /\ UNCHANGED <<op, pairs, idx, result, pairs_to_fetch, bstart, tasks, k,
                   all_results>>
    /\ UNCHANGED <<cacheVars, rateVars, scoreVars, requestVars>>

\* line 90, the assignment to self.cache_timestamps[pair]
StoreStamp(t) ==
    /\ pc[t] = "stamp"
    /\ cache_timestamps' = Put(cache_timestamps, tasks[t][k[t]].pair, stamp[t])
    /\ stamp' = [stamp EXCEPT ![t] = 0]
    /\ Advance(t)
    /\ UNCHANGED <<op, pairs, idx, result, pairs_to_fetch, all_results>>
    /\ UNCHANGED <<cache, cache_timestamp, now, rateVars, scoreVars, requestVars>>

\* lines 97-99, and the caller's line 43; the locals of the coroutine and of
\* the loops are gone once it has returned
Finish(t) ==
    /\ pc[t] = "finish"
    /\ cache_timestamp' = now
    /\ result' = [result EXCEPT ![t] = Returned(t, all_results[t])]
    /\ pc' = [pc EXCEPT ![t] = "done"]
    /\ idx' = [idx EXCEPT ![t] = 0]
    /\ pairs_to_fetch' = [pairs_to_fetch EXCEPT ![t] = <<>>]
    /\ bstart' = [bstart EXCEPT ![t] = 0]
    /\ tasks' = [tasks EXCEPT ![t] = NoTasks]
    /\ k' = [k EXCEPT ![t] = 0]
    /\ all_results' = [all_results EXCEPT ![t] = EmptyMap]
    /\ UNCHANGED <<op, pairs, stamp>>
    /\ UNCHANGED <<cache, cache_timestamps, now, rateVars, scoreVars, requestVars>>

\* the entry point returns; the thread is free for the next request
Return(t) ==
    /\ pc[t] = "done"
    /\ pc' = [pc EXCEPT ![t] = "idle"]
    /\ op' = [op EXCEPT ![t] = "none"]
    /\ pairs' = [pairs EXCEPT ![t] = <<>>]
    /\ idx' = [idx EXCEPT ![t] = 0]
    /\ result' = [result EXCEPT ![t] = EmptyMap]
    /\ pairs_to_fetch' = [pairs_to_fetch EXCEPT ![t] = <<>>]
    /\ bstart' = [bstart EXCEPT ![t] = 0]
    /\ tasks' = [tasks EXCEPT ![t] = NoTasks]
    /\ k' = [k EXCEPT ![t] = 0]
    /\ all_results' = [all_results EXCEPT ![t] = EmptyMap]
    /\ stamp' = [stamp EXCEPT ![t] = 0]
    /\ UNCHANGED <<cacheVars, rateVars, scoreVars, requestVars>>

\* time passes
Tick(d) ==
    /\ now + d <= MaxTicks * d
    /\ now' = now + d
    /\ UNCHANGED <<cache, cache_timestamps, cache_timestamp>>
    /\ UNCHANGED <<localVars, rateVars, scoreVars, requestVars>>

\* The steps of the threads T, the clock included, when callers pass the
\* arguments lists, the exchange lists the pairs listings and answers a
\* depth request with one of resps.
Run(T, lists, listings, resps) ==
    \/ \E t \in T, ps \in lists : Call(t, ps)
    \/ \E t \in T : CheckPair(t)
    \/ \E t \in T, listed \in BOOLEAN, ids \in listings :
          FetchAndCacheAll(t, listed, ids)
    \/ \E t \in T, raises \in BOOLEAN : SyncFetch(t, raises)
    \/ \E t \in T, resp \in resps, j \in 1..MaxPairs : Respond(t, j, resp)
    \/ \E t \in T : StoreResult(t)
    \/ \E t \in T : ReadClock(t)
    \/ \E t \in T : StoreStamp(t)
    \/ \E t \in T : Finish(t)
    \/ \E t \in T : Return(t)
    \/ \E d \in TickSteps : Tick(d)

\* Two threads share the service; each request names one pair, the exchange
\* lists one pair and has one order book to answer with. No batch is longer
\* than MaxPairs.
ConcurrentLists == {<<p>> : p \in RawPairs}
ConcurrentListings == {<<btc_idr>>}
ConcurrentResponses == {r \in Responses : r.body # BookB}

Next == Run(Threads, ConcurrentLists, ConcurrentListings, ConcurrentResponses)

Spec == Init /\ [][Next]_vars

\* One thread; requests name up to MaxPairs pairs, the exchange lists two
\* pairs and answers with any of Responses.
Listing == <<btc_idr, eth_idr>>

NextSeq == Run({"t1"}, PairLists, {Listing}, Responses)

SpecSeq == Init /\ [][NextSeq]_vars

\* One thread asks for one pair; the exchange answers a fetch with a usable
\* order book, or with nothing before ClientTimeout(total=5) of line 105 runs
\* out.
DeadlineResponses ==
    {r \in Responses : r.status = 0 \/ (Succeeded(r) /\ r.body = BookA)}

NextDeadline ==
    Run({"t1"}, {<<btcidr>>}, ConcurrentListings, DeadlineResponses)

SpecDeadline == Init /\ [][NextDeadline]_vars

\* One thread asks for lists of up to MaxBatchPairs pairs, which take up to
\* three batches. No batch is longer than MaxPairs in Spec, SpecSeq and
\* SpecDeadline, so that line 94 is reached in none of them.
MaxBatchPairs == 101

PairLetters == <<"a", "b", "c", "d", "e", "f", "g", "h", "i", "j", "k">>

\* the n-th pair id of a long list
PairNo(n) ==
    <<PairLetters[((n - 1) \div Len(PairLetters)) + 1],
      PairLetters[((n - 1) % Len(PairLetters)) + 1], "i", "d", "r">>

ManyPairs(n) == [i \in 1..n |-> PairNo(i)]

BatchLists ==
    {ManyPairs(n) : n \in {1, BatchSize, BatchSize + 1, MaxBatchPairs}}

\* the exchange knows no pair whose id has an a in the second place, and
\* answers BookA for every other pair
AnswerFor(pair) ==
    IF pair[2] = "a"
    THEN [status |-> 500, json |-> FALSE, body |-> BookBad]
    ELSE [status |-> 200, json |-> TRUE, body |-> BookA]

\* the tasks of the batch whose request is not answered yet
Pending(t) == {j \in 1..Len(tasks[t]) : tasks[t][j].st = "inflight"}

\* The requests of a batch are answered from both ends of the batch: the
\* first or the last of the pending ones is next.
NextBatch ==
    \/ \E ps \in BatchLists : Call("t1", ps)
    \/ CheckPair("t1")
    \/ \E raises \in BOOLEAN : SyncFetch("t1", raises)
    \/ \E j \in Pending("t1") :
          /\ \/ \A i \in Pending("t1") : j <= i
             \/ \A i \in Pending("t1") : j >= i
          /\ Respond("t1", j, AnswerFor(tasks["t1"][j].pair))
    \/ StoreResult("t1")
    \/ ReadClock("t1")
    \/ StoreStamp("t1")
    \/ Pause("t1")
    \/ Finish("t1")
    \/ Return("t1")

SpecBatch == Init /\ [][NextBatch]_vars

-----------------------------------------------------------------------------
(* RateLimiter *)

\* IndodaxService(rate_limit=10): RateLimiter(max_calls=rate_limit, ...)
RateLimit == 10

\* RateLimiter(..., time_window=60)
TimeWindow == 60

\* time.time() advances this many times between calls
MaxRateTicks == 3

\* and by this many seconds at a time
RateTickSteps == {30}

\* [call_time for call_time in self.calls if now - call_time < self.time_window]
InWindow(times, t) == SelectSeq(times, LAMBDA c : t - c < TimeWindow)

\* RateLimiter.wait_if_needed(), time.sleep(sleep_time) included: the caller
\* comes back from it no earlier than sleep_time later
WaitIfNeededBody ==
    LET kept       == InWindow(calls, clock)
        sleep_time == TimeWindow - (clock - kept[1])
        sleeps     == Len(kept) >= RateLimit /\ sleep_time > 0
        after      == IF sleeps THEN clock + sleep_time ELSE clock
    IN  /\ clock <= MaxRateTicks * TimeWindow
        /\ clock' = after
        /\ calls' = IF sleeps THEN <<after>> ELSE Append(kept, after)
        /\ passed' = Append(InWindow(passed, after), after)

\* a call of wait_if_needed() on its own
WaitIfNeeded ==
    /\ WaitIfNeededBody
    /\ UNCHANGED <<cacheVars, localVars, scoreVars, requestVars>>

\* time passes between two calls
RateTick(d) ==
    /\ clock + d <= MaxRateTicks * d
    /\ clock' = clock + d
    /\ passed' = InWindow(passed, clock + d)
    /\ UNCHANGED <<calls, cacheVars, localVars, scoreVars, requestVars>>

NextRate ==
    \/ WaitIfNeeded
    \/ \E d \in RateTickSteps : RateTick(d)

SpecRate == Init /\ [][NextRate]_vars

\* C8: in any window of time_window seconds at most max_calls calls get past
\* wait_if_needed. (passed holds the calls that got past it during the
\* time_window seconds up to now.)
C8_AtMostMaxCallsPerWindow == Len(passed) <= RateLimit

-----------------------------------------------------------------------------
(* IndodaxService._make_request over the session of _create_session. The
   retrying adapter of the session is code of urllib3 and requests; it is
   modelled from the configuration _create_session gives it. *)

\* Retry(total=3, ...)
RetryTotal == 3

\* status_forcelist=[429, 500, 502, 503, 504]
StatusForcelist == {429, 500, 502, 503, 504}

\* what one attempt of session.get can meet: a response with a status and a
\* body that is JSON or not, no connection within the timeout, no answer
\* within the timeout on an open connection, a refused or broken connection
Status(s, json) == [kind |-> "status", status |-> s, json |-> json]

ConnectTimeout == [kind |-> "connect_timeout", status |-> 0, json |-> FALSE]

ReadTimeout == [kind |-> "read_timeout", status |-> 0, json |-> FALSE]

ConnectionError == [kind |-> "connection_error", status |-> 0, json |-> FALSE]

Answers ==
    {Status(200, TRUE), Status(200, FALSE), Status(404, FALSE)}
        \cup {Status(s, FALSE) : s \in StatusForcelist}
        \cup {ConnectTimeout, ReadTimeout, ConnectionError}

\* a deliberately wrong variant: every failed attempt is tried again
ShouldRetryEveryFailure(answer) ==
    \/ answer.kind \in {"connect_timeout", "read_timeout", "connection_error"}
    \/ answer.kind = "status" /\ answer.status >= 400

\* the adapter tries again after an attempt that met no response, and after a
\* response whose status is in status_forcelist
ShouldRetry(answer) ==
    \/ answer.kind \in {"connect_timeout", "read_timeout", "connection_error"}
    \/ answer.kind = "status" /\ answer.status \in StatusForcelist

\* How _make_request ends once session.get has stopped trying, as the message
\* of the IndodaxAPIError it raises, or "data" when it returns the parsed body.
\* requests raises ConnectTimeout (a Timeout) when the retries ran out on
\* connect timeouts, RetryError when they ran out on statuses and
\* ConnectionError when they ran out otherwise; raise_for_status() raises
\* HTTPError for a status from 400. The exception of response.json() is a
\* ValueError in every version of requests and, from requests 2.27, a
\* RequestException as well: there the except clause of line 127 takes it
\* before the one of line 131 is looked at.
MakeRequestOutcomes(answer) ==
    CASE answer.kind = "connect_timeout" -> {"Request timeout"}
      [] answer.kind \in {"read_timeout", "connection_error"} ->
            {"API request failed"}
      [] answer.kind = "status" /\ answer.status >= 400 ->
            {"API request failed"}
      [] answer.kind = "status" /\ answer.status < 400 /\ answer.json ->
            {"data"}
      [] OTHER -> {"Invalid JSON response", "API request failed"}

\* _make_request up to the first attempt: wait_if_needed(), then session.get
MakeRequest ==
    /\ request.pc = "idle"
    /\ WaitIfNeededBody
    /\ request' = [pc |-> "sending", attempts |-> 1, last |-> NoResponse,
                   outcome |-> "none"]
    /\ UNCHANGED <<cacheVars, localVars, scoreVars>>

\* an attempt is answered and the adapter tries again
Retry ==
    /\ request.pc = "sending"
    /\ request.attempts <= RetryTotal
    /\ \E answer \in Answers :
          /\ ShouldRetry(answer)
          /\ request' = [request EXCEPT !.attempts = @ + 1, !.last = answer]
    /\ UNCHANGED <<cacheVars, localVars, rateVars, scoreVars>>

\* an attempt is answered and session.get stops: _make_request returns or raises
Complete ==
    /\ request.pc = "sending"
    /\ \E answer \in Answers :
          /\ ~(ShouldRetry(answer) /\ request.attempts <= RetryTotal)
          /\ \E outcome \in MakeRequestOutcomes(answer) :
                request' = [request EXCEPT !.pc = "done", !.last = answer,
                                           !.outcome = outcome]
    /\ UNCHANGED <<cacheVars, localVars, rateVars, scoreVars>>

\* the caller has the outcome
RequestTaken ==
    /\ request.pc = "done"
    /\ request' = [pc |-> "idle", attempts |-> 0, last |-> NoResponse,
                   outcome |-> "none"]
    /\ UNCHANGED <<cacheVars, localVars, rateVars, scoreVars>>

NextRequest ==
    \/ MakeRequest
    \/ Retry
    \/ Complete
    \/ RequestTaken
    \/ \E d \in RateTickSteps : RateTick(d)

SpecRequest == Init /\ [][NextRequest]_vars

\* C15: no request is attempted more than 4 times; a request that ends on a
\* status of {429, 500, 502, 503, 504} or on a connection timeout has been
\* attempted 4 times and ends in an IndodaxAPIError; a failure with any other
\* status ends the request at once, in an IndodaxAPIError, without another
\* attempt.
C15_RetriedAtMostThreeTimes ==
    [][LET ends      == request.pc = "sending" /\ request'.pc = "done"
           answered  == request.pc = "sending" /\ request'.last # request.last
           retriable == \/ request'.last.kind = "connect_timeout"
                        \/ request'.last.status \in {429, 500, 502, 503, 504}
           refused   == /\ request'.last.kind = "status"
                        /\ request'.last.status >= 400
                        /\ request'.last.status \notin {429, 500, 502, 503, 504}
       IN  /\ request'.attempts <= 4
           /\ (ends /\ retriable) =>
                 (request'.attempts = 4 /\ request'.outcome # "data")
           /\ (answered /\ refused) =>
                 /\ request'.pc = "done"
                 /\ request'.attempts = request.attempts
                 /\ request'.outcome # "data"]_vars

C15_GaveUpAfterFourAttempts ==
    /\ request.pc = "done"
    /\ request.attempts = 4
    /\ request.last = Status(503, FALSE)
    /\ request.outcome = "API request failed"

\* C16: a request ends in the outcome "Invalid JSON response" exactly when its
\* response came with a body that is not JSON: every parse failure ends so,
\* and no failure of the network or of the HTTP status does.
C16_ParseFailureHasItsOwnOutcome ==
    request.pc = "done" =>
        (request.outcome = "Invalid JSON response"
            <=> /\ request.last.kind = "status"
                /\ request.last.status < 400
                /\ ~request.last.json)

-----------------------------------------------------------------------------
(* The scoring functions. Scores that the code holds in floats are integers
   here, or fractions <<n, d>> where a score need not be whole. *)

\* a deliberately wrong variant: the sum of the adjustments is returned as it is
CalculateBandarmologyScoreUnclamped(analysis) ==
    LET imbalance == Get(analysis, "order_book_imbalance", EmptyMap)
        pressure  == Get(imbalance, "pressure", "neutral")
        whale     == Get(analysis, "whale_activity", EmptyMap)
        whale_pct == Get(whale, "whale_percentage", Zero)
        walls     == Get(analysis, "buy_sell_walls", EmptyMap)
        spread    == Get(analysis, "spread_analysis", EmptyMap)
        liquidity == Get(spread, "liquidity", "medium")
    IN  20 + (CASE pressure = "strong_buy" -> 10 [] pressure = "buy" -> 5
                [] pressure = "strong_sell" -> -10 [] pressure = "sell" -> -5
                [] OTHER -> 0)
           + (IF Get(whale, "whale_detected", FALSE)
              THEN IF whale_pct[1] > 30 * whale_pct[2] THEN 5
                   ELSE IF whale_pct[1] > 20 * whale_pct[2] THEN 3 ELSE 0
              ELSE 0)
           + (IF Get(walls, "has_buy_wall", FALSE) /\ ~Get(walls, "has_sell_wall", FALSE)
              THEN 5
              ELSE IF Get(walls, "has_sell_wall", FALSE) /\ ~Get(walls, "has_buy_wall", FALSE)
                   THEN -5 ELSE 0)
           + (IF liquidity = "high" THEN 5 ELSE IF liquidity = "low" THEN -5 ELSE 0)

\* a deliberately wrong variant: a buy wall counts even when there is a sell wall too
CalculateBandarmologyScoreBuyWallFirst(analysis) ==
    LET imbalance == Get(analysis, "order_book_imbalance", EmptyMap)
        pressure  == Get(imbalance, "pressure", "neutral")
        score1    == 20 + (CASE pressure = "strong_buy" -> 10
                             [] pressure = "buy" -> 5
                             [] pressure = "strong_sell" -> -10
                             [] pressure = "sell" -> -5
                             [] OTHER -> 0)
        whale     == Get(analysis, "whale_activity", EmptyMap)
        whale_pct == Get(whale, "whale_percentage", Zero)
        score2    == IF Get(whale, "whale_detected", FALSE)
                     THEN IF whale_pct[1] > 30 * whale_pct[2] THEN score1 + 5
                          ELSE IF whale_pct[1] > 20 * whale_pct[2] THEN score1 + 3
                          ELSE score1
                     ELSE score1
        walls     == Get(analysis, "buy_sell_walls", EmptyMap)
        has_buy   == Get(walls, "has_buy_wall", FALSE)
        has_sell  == Get(walls, "has_sell_wall", FALSE)
        score3    == IF has_buy THEN score2 + 5
                     ELSE IF has_sell THEN score2 - 5 ELSE score2
        spread    == Get(analysis, "spread_analysis", EmptyMap)
        liquidity == Get(spread, "liquidity", "medium")
        score4    == IF liquidity = "high" THEN score3 + 5
                     ELSE IF liquidity = "low" THEN score3 - 5 ELSE score3
    IN  Max(0, Min(40, score4))

\* BandarmologyService._calculate_bandarmology_score(analysis)
CalculateBandarmologyScore(analysis) ==
    LET imbalance == Get(analysis, "order_book_imbalance", EmptyMap)
        pressure  == Get(imbalance, "pressure", "neutral")
        score1    == 20 + (CASE pressure = "strong_buy" -> 10
                             [] pressure = "buy" -> 5
                             [] pressure = "strong_sell" -> -10
                             [] pressure = "sell" -> -5
                             [] OTHER -> 0)
        whale     == Get(analysis, "whale_activity", EmptyMap)
        whale_pct == Get(whale, "whale_percentage", Zero)
        score2    == IF Get(whale, "whale_detected", FALSE)
                     THEN IF whale_pct[1] > 30 * whale_pct[2] THEN score1 + 5
                          ELSE IF whale_pct[1] > 20 * whale_pct[2] THEN score1 + 3
                          ELSE score1
                     ELSE score1
        walls     == Get(analysis, "buy_sell_walls", EmptyMap)
        has_buy   == Get(walls, "has_buy_wall", FALSE)
        has_sell  == Get(walls, "has_sell_wall", FALSE)
        score3    == IF has_buy /\ ~has_sell THEN score2 + 5
                     ELSE IF has_sell /\ ~has_buy THEN score2 - 5 ELSE score2
        spread    == Get(analysis, "spread_analysis", EmptyMap)
        liquidity == Get(spread, "liquidity", "medium")
        score4    == IF liquidity = "high" THEN score3 + 5
                     ELSE IF liquidity = "low" THEN score3 - 5 ELSE score3
    IN  Max(0, Min(40, score4))

\* a deliberately wrong variant: the Bollinger signal counts the other way round
CalculateTechnicalScoreBandsInverted(analysis) ==
    LET signals     == Get(analysis, "signals", EmptyMap)
        rsi_signal  == Get(signals, "rsi_signal", "None")
        score1      == IF rsi_signal = "oversold" THEN 20 + 5
                       ELSE IF rsi_signal = "overbought" THEN 20 - 5 ELSE 20
        macd_signal == Get(signals, "macd_signal", "None")
        score2      == IF macd_signal = "bullish" THEN score1 + 5
                       ELSE IF macd_signal = "bearish" THEN score1 - 5 ELSE score1
        ma_signal   == Get(signals, "ma_signal", "None")
        score3      == IF ma_signal = "bullish" THEN score2 + 5
                       ELSE IF ma_signal = "bearish" THEN score2 - 5 ELSE score2
        bb_signal   == Get(signals, "bb_signal", "None")
        score4      == IF bb_signal = "oversold" THEN score3 - 5
                       ELSE IF bb_signal = "overbought" THEN score3 + 5 ELSE score3
    IN  Max(0, Min(40, score4))

\* TechnicalAnalysisService._calculate_technical_score(analysis); a signal
\* that signals.get() does not find is "None"
CalculateTechnicalScore(analysis) ==
    LET signals     == Get(analysis, "signals", EmptyMap)
        rsi_signal  == Get(signals, "rsi_signal", "None")
        score1      == IF rsi_signal = "oversold" THEN 20 + 5
                       ELSE IF rsi_signal = "overbought" THEN 20 - 5 ELSE 20
        macd_signal == Get(signals, "macd_signal", "None")
        score2      == IF macd_signal = "bullish" THEN score1 + 5
                       ELSE IF macd_signal = "bearish" THEN score1 - 5 ELSE score1
        ma_signal   == Get(signals, "ma_signal", "None")
        score3      == IF ma_signal = "bullish" THEN score2 + 5
                       ELSE IF ma_signal = "bearish" THEN score2 - 5 ELSE score2
        bb_signal   == Get(signals, "bb_signal", "None")
        score4      == IF bb_signal = "oversold" THEN score3 + 5
                       ELSE IF bb_signal = "overbought" THEN score3 - 5 ELSE score3
    IN  Max(0, Min(40, score4))

\* A value of market_data is [float |-> whether float() accepts it, v |-> the
\* number it yields].
Num(n) == [float |-> TRUE, v |-> n]
NotANumber == [float |-> FALSE, v |-> 0]

\* a deliberately wrong variant: a price change of exactly 10 or -10 counts as a strong one
CalculateMomentumScoreInclusive(market_data) ==
    LET price     == Get(market_data, "price_change_24h", Num(0))
        change    == price.v
        score1    == IF change >= 10 THEN 10 + 5
                     ELSE IF change > 5 THEN 10 + 3
                     ELSE IF change <= -10 THEN 10 - 5
                     ELSE IF change < -5 THEN 10 - 3 ELSE 10
        volume    == Get(market_data, "volume_24h", Num(0))
        average   == Get(market_data, "avg_volume", volume)
        vol       == volume.v
        avg       == average.v
        score2    == IF avg > 0
                     THEN IF 2 * vol > 3 * avg THEN score1 + 5
                          ELSE IF 5 * vol > 6 * avg THEN score1 + 3
                          ELSE IF 2 * vol < avg THEN score1 - 5
                          ELSE IF 5 * vol < 4 * avg THEN score1 - 3 ELSE score1
                     ELSE score1
        score     == IF ~price.float THEN 10
                     ELSE IF ~volume.float \/ ~average.float THEN score1
                     ELSE score2
    IN  Max(0, Min(20, score))

\* RecommendationService._calculate_momentum_score(market_data); the except
\* branch keeps the score reached when float() raised
CalculateMomentumScore(market_data) ==
    LET price     == Get(market_data, "price_change_24h", Num(0))
        change    == price.v
        score1    == IF change > 10 THEN 10 + 5
                     ELSE IF change > 5 THEN 10 + 3
                     ELSE IF change < -10 THEN 10 - 5
                     ELSE IF change < -5 THEN 10 - 3 ELSE 10
        volume    == Get(market_data, "volume_24h", Num(0))
        average   == Get(market_data, "avg_volume", volume)
        vol       == volume.v
        avg       == average.v
        \* volume_ratio = volume_24h / avg_volume against 1.5, 1.2, 0.5, 0.8
        score2    == IF avg > 0
                     THEN IF 2 * vol > 3 * avg THEN score1 + 5
                          ELSE IF 5 * vol > 6 * avg THEN score1 + 3
                          ELSE IF 2 * vol < avg THEN score1 - 5
                          ELSE IF 5 * vol < 4 * avg THEN score1 - 3 ELSE score1
                     ELSE score1
        score     == IF ~price.float THEN 10
                     ELSE IF ~volume.float \/ ~average.float THEN score1
                     ELSE score2
    IN  Max(0, Min(20, score))

\* a deliberately wrong variant: a score of exactly 40 is a HOLD
DetermineActionHoldFrom40(total_score) ==
    LET n == total_score[1]
        d == total_score[2]
    IN  IF n >= 75 * d THEN <<"STRONG_BUY", "HIGH">>
        ELSE IF n >= 60 * d THEN <<"BUY", "MEDIUM">>
        ELSE IF n >= 50 * d THEN <<"WEAK_BUY", "LOW">>
        ELSE IF n >= 40 * d THEN <<"HOLD", "MEDIUM">>
        ELSE IF n >= 30 * d THEN <<"WEAK_SELL", "LOW">>
        ELSE IF n >= 25 * d THEN <<"SELL", "MEDIUM">>
        ELSE <<"STRONG_SELL", "HIGH">>

\* RecommendationService._determine_action(total_score), the score n/d
DetermineAction(total_score) ==
    LET n == total_score[1]
        d == total_score[2]
    IN  IF n >= 75 * d THEN <<"STRONG_BUY", "HIGH">>
        ELSE IF n >= 60 * d THEN <<"BUY", "MEDIUM">>
        ELSE IF n >= 50 * d THEN <<"WEAK_BUY", "LOW">>
        ELSE IF n > 40 * d THEN <<"HOLD", "MEDIUM">>
        ELSE IF n >= 30 * d THEN <<"WEAK_SELL", "LOW">>
        ELSE IF n >= 25 * d THEN <<"SELL", "MEDIUM">>
        ELSE <<"STRONG_SELL", "HIGH">>

(* The inputs the functions are applied to *)

Pressures == {"strong_buy", "buy", "neutral", "sell", "strong_sell"}
WhalePercentages == {<<n, 1>> : n \in {0, 20, 21, 30, 31, 100}}
Liquidities == {"high", "medium", "low", "unknown"}

\* what analyze_order_book hands to _calculate_bandarmology_score; the
\* results of the except branches lack some keys
BandarmologyAnalyses ==
    {[order_book_imbalance |-> i, whale_activity |-> w,
      buy_sell_walls |-> b, spread_analysis |-> sp] :
        i \in {[pressure |-> p] : p \in Pressures} \cup {EmptyMap},
        w \in {[whale_detected |-> x, whale_percentage |-> y] :
                  x \in BOOLEAN, y \in WhalePercentages},
        b \in {[has_buy_wall |-> x, has_sell_wall |-> y] :
                  x \in BOOLEAN, y \in BOOLEAN},
        sp \in {[liquidity |-> l] : l \in Liquidities}}

Labels == {"oversold", "overbought", "bullish", "bearish", "neutral", "None"}

TechnicalAnalyses ==
    {[signals |-> sg] :
        sg \in [{"rsi_signal", "macd_signal", "ma_signal", "bb_signal"} -> Labels]}
    \cup {EmptyMap}

PriceChanges == {Num(n) : n \in {-11, -10, -6, -5, 0, 5, 6, 10, 11}} \cup {NotANumber}
Volumes == {Num(n) : n \in {0, 4, 5, 8, 10, 12, 13, 15, 16}} \cup {NotANumber}
AverageVolumes == {Num(n) : n \in {-10, 0, 10}} \cup {NotANumber}

\* market_data with every key, without avg_volume, and with no key at all
MarketData ==
    {[price_change_24h |-> pr, volume_24h |-> vo, avg_volume |-> av] :
        pr \in PriceChanges, vo \in Volumes, av \in AverageVolumes}
    \cup {[price_change_24h |-> pr, volume_24h |-> vo] :
        pr \in PriceChanges, vo \in Volumes}
    \cup {EmptyMap}

\* total scores are the multiples of 1/ScoreSteps in [0, 100]
ScoreSteps == 100
TotalScores == {<<n, ScoreSteps>> : n \in 0..(100 * ScoreSteps)}

\* generate_recommendation applies one function at a time to its inputs
BandarmologyScore(analysis) ==
    /\ call.fn = "none"
    /\ call' = [fn |-> "_calculate_bandarmology_score", arg |-> analysis]
    /\ ret' = CalculateBandarmologyScore(analysis)
    /\ UNCHANGED <<cacheVars, localVars, rateVars, requestVars>>

TechnicalScore(analysis) ==
    /\ call.fn = "none"
    /\ call' = [fn |-> "_calculate_technical_score", arg |-> analysis]
    /\ ret' = CalculateTechnicalScore(analysis)
    /\ UNCHANGED <<cacheVars, localVars, rateVars, requestVars>>

MomentumScore(market_data) ==
    /\ call.fn = "none"
    /\ call' = [fn |-> "_calculate_momentum_score", arg |-> market_data]
    /\ ret' = CalculateMomentumScore(market_data)
    /\ UNCHANGED <<cacheVars, localVars, rateVars, requestVars>>

Action(total_score) ==
    /\ call.fn = "none"
    /\ call' = [fn |-> "_determine_action", arg |-> total_score]
    /\ ret' = DetermineAction(total_score)
    /\ UNCHANGED <<cacheVars, localVars, rateVars, requestVars>>

\* the caller takes the value and goes on
Taken ==
    /\ call.fn # "none"
    /\ call' = [fn |-> "none", arg |-> 0]
    /\ ret' = 0
    /\ UNCHANGED <<cacheVars, localVars, rateVars, requestVars>>

NextScore ==
    \/ \E analysis \in BandarmologyAnalyses : BandarmologyScore(analysis)
    \/ \E analysis \in TechnicalAnalyses : TechnicalScore(analysis)
    \/ \E market_data \in MarketData : MomentumScore(market_data)
    \/ \E total_score \in TotalScores : Action(total_score)
    \/ Taken

SpecScore == Init /\ [][NextScore]_vars

\* C9: the bandarmology score and the technical score lie in [0, 40] and the
\* momentum score in [0, 20] for every input, and an input whose adjustments
\* add up to more than the maximum yields exactly the maximum.
C9_ScoresStayInRange ==
    /\ call.fn = "_calculate_bandarmology_score" =>
          /\ ret \in 0..40
          /\ (/\ call.arg.order_book_imbalance = [pressure |-> "strong_buy"]
              /\ call.arg.whale_activity.whale_detected
              /\ call.arg.whale_activity.whale_percentage[1] > 20
              /\ call.arg.buy_sell_walls.has_buy_wall
              /\ ~call.arg.buy_sell_walls.has_sell_wall
              /\ call.arg.spread_analysis.liquidity = "high") => ret = 40
    /\ call.fn = "_calculate_technical_score" => ret \in 0..40
    /\ call.fn = "_calculate_momentum_score" => ret \in 0..20

\* C9 witness: strong buy pressure, whales, a buy wall and high liquidity add
\* up to 45, and the score is 40
C9_ClampedAtMaximum ==
    /\ call.fn = "_calculate_bandarmology_score"
    /\ call.arg.order_book_imbalance = [pressure |-> "strong_buy"]
    /\ call.arg.whale_activity =
          [whale_detected |-> TRUE, whale_percentage |-> <<31, 1>>]
    /\ call.arg.buy_sell_walls = [has_buy_wall |-> TRUE, has_sell_wall |-> FALSE]
    /\ call.arg.spread_analysis.liquidity = "high"
    /\ ret = 40

\* C24: the bandarmology score is 20 + p + w + l + q kept within [0, 40]: p
\* is +10, +5, -10, -5 for the pressure strong_buy, buy, strong_sell, sell
\* and 0 for any other; w is +5 for a detected whale with a share above 30,
\* +3 with a share above 20, else 0; l is +5 for a wall on the buy side only,
\* -5 for a wall on the sell side only, else 0; q is +5 for high liquidity,
\* -5 for low, else 0.
C24_BandarmologyScoreIsClampedSum ==
    call.fn = "_calculate_bandarmology_score" =>
        LET pressure == Get(call.arg.order_book_imbalance, "pressure", "neutral")
            whale    == call.arg.whale_activity
            walls    == call.arg.buy_sell_walls
            p == CASE pressure = "strong_buy" -> 10
                   [] pressure = "buy" -> 5
                   [] pressure = "strong_sell" -> -10
                   [] pressure = "sell" -> -5
                   [] OTHER -> 0
            w == IF whale.whale_detected /\ whale.whale_percentage[1] > 30 * whale.whale_percentage[2] THEN 5
                 ELSE IF whale.whale_detected /\ whale.whale_percentage[1] > 20 * whale.whale_percentage[2]
                      THEN 3 ELSE 0
            l == (IF walls.has_buy_wall THEN 5 ELSE 0)
                    - (IF walls.has_sell_wall THEN 5 ELSE 0)
            q == CASE call.arg.spread_analysis.liquidity = "high" -> 5
                   [] call.arg.spread_analysis.liquidity = "low" -> -5
                   [] OTHER -> 0
            sum == 20 + p + w + l + q
        IN  ret = IF sum < 0 THEN 0 ELSE IF sum > 40 THEN 40 ELSE sum

C24_BothWallsCancel ==
    /\ call.fn = "_calculate_bandarmology_score"
    /\ call.arg.order_book_imbalance = [pressure |-> "sell"]
    /\ call.arg.whale_activity =
          [whale_detected |-> TRUE, whale_percentage |-> <<21, 1>>]
    /\ call.arg.buy_sell_walls = [has_buy_wall |-> TRUE, has_sell_wall |-> TRUE]
    /\ call.arg.spread_analysis.liquidity = "low"
    /\ ret = 13

\* the labels _generate_signals gives the signal named key
SignalLabels(key) ==
    IF key \in {"rsi_signal", "bb_signal"}
    THEN {"oversold", "overbought", "neutral"}
    ELSE {"bullish", "bearish", "neutral"}

\* C26: the technical score is 20 plus the contributions of rsi_signal,
\* macd_signal, ma_signal and bb_signal, kept within [0, 40]; a signal
\* contributes +5 when it is oversold or bullish, -5 when it is overbought or
\* bearish, and 0 when it is neutral or absent. (Every signal carries one of
\* the labels _generate_signals gives it, or is absent.)
C26_TechnicalScoreIsClampedSum ==
    (/\ call.fn = "_calculate_technical_score"
     /\ \A key \in DOMAIN Get(call.arg, "signals", EmptyMap) :
           call.arg.signals[key] \in SignalLabels(key) \cup {"None"})
      => LET signals == Get(call.arg, "signals", EmptyMap)
             Contribution(key) ==
                 LET label == Get(signals, key, "None")
                 IN  IF label \in {"oversold", "bullish"} THEN 5
                     ELSE IF label \in {"overbought", "bearish"} THEN -5
                     ELSE 0
             sum == 20 + Contribution("rsi_signal") + Contribution("macd_signal")
                       + Contribution("ma_signal") + Contribution("bb_signal")
         IN  ret = IF sum < 0 THEN 0 ELSE IF sum > 40 THEN 40 ELSE sum

C26_MixedSignals ==
    /\ call.fn = "_calculate_technical_score"
    /\ call.arg = [signals |-> [rsi_signal |-> "oversold",
                                macd_signal |-> "bearish",
                                ma_signal |-> "None",
                                bb_signal |-> "oversold"]]
    /\ ret = 25

\* C27: for market data whose values are numbers, the momentum score is
\* 10 + c + v kept within [0, 20]: c is +5 for a 24h price change above 10,
\* +3 above 5, -5 below -10, -3 below -5, else 0; v is +5 for a ratio of
\* volume_24h to avg_volume above 1.5, +3 above 1.2, -5 below 0.5, -3 below
\* 0.8, else 0, and 0 when avg_volume is not positive; a missing avg_volume
\* is volume_24h, a missing price change or volume is 0.
C27_MomentumScoreIsClampedSum ==
    (/\ call.fn = "_calculate_momentum_score"
     /\ \A key \in DOMAIN call.arg : call.arg[key].float)
      => LET change == Get(call.arg, "price_change_24h", Num(0)).v
             vol    == Get(call.arg, "volume_24h", Num(0)).v
             avg    == Get(call.arg, "avg_volume", Num(vol)).v
             c == IF change > 10 THEN 5
                  ELSE IF change > 5 THEN 3
                  ELSE IF change < -10 THEN -5
                  ELSE IF change < -5 THEN -3 ELSE 0
             v == IF avg <= 0 THEN 0
                  ELSE IF 10 * vol > 15 * avg THEN 5
                  ELSE IF 10 * vol > 12 * avg THEN 3
                  ELSE IF 10 * vol < 5 * avg THEN -5
                  ELSE IF 10 * vol < 8 * avg THEN -3 ELSE 0
             sum == 10 + c + v
         IN  ret = IF sum < 0 THEN 0 ELSE IF sum > 20 THEN 20 ELSE sum

C27_BoundaryChangeAndRatio ==
    /\ call.fn = "_calculate_momentum_score"
    /\ call.arg = [price_change_24h |-> Num(10), volume_24h |-> Num(15),
                   avg_volume |-> Num(10)]
    /\ ret = 16

\* the bands of the action mapping: lowest score, whether it belongs to the
\* band, and the pair the band maps to; a band ends where the next one begins
ActionBands ==
    << [from |-> 75, closed |-> TRUE,  is |-> <<"STRONG_BUY", "HIGH">>],
       [from |-> 60, closed |-> TRUE,  is |-> <<"BUY", "MEDIUM">>],
       [from |-> 50, closed |-> TRUE,  is |-> <<"WEAK_BUY", "LOW">>],
       [from |-> 40, closed |-> FALSE, is |-> <<"HOLD", "MEDIUM">>],
       [from |-> 30, closed |-> TRUE,  is |-> <<"WEAK_SELL", "LOW">>],
       [from |-> 25, closed |-> TRUE,  is |-> <<"SELL", "MEDIUM">>],
       [from |-> 0,  closed |-> TRUE,  is |-> <<"STRONG_SELL", "HIGH">>] >>

\* the score n/d is at or above the start of band b, and above it if the
\* band is open at its start
AboveStart(n, d, b) ==
    IF ActionBands[b].closed THEN n >= ActionBands[b].from * d
    ELSE n > ActionBands[b].from * d

\* the score n/d lies in band b
InBand(n, d, b) ==
    /\ AboveStart(n, d, b)
    /\ b > 1 => ~AboveStart(n, d, b - 1)

\* C10: every score in [0, 100] lies in exactly one band of the documented
\* mapping, and _determine_action returns that band's action and confidence.
C10_ActionMappingTotalAndDisjoint ==
    call.fn = "_determine_action" =>
        LET n == call.arg[1]
            d == call.arg[2]
            bands == {b \in 1..Len(ActionBands) : InBand(n, d, b)}
        IN  /\ Cardinality(bands) = 1
            /\ \A b \in bands : ret = ActionBands[b].is

\* C10 witness: a score of exactly 40 is a WEAK_SELL
C10_FortyIsWeakSell ==
    /\ call.fn = "_determine_action"
    /\ call.arg[1] = 40 * call.arg[2]
    /\ ret = <<"WEAK_SELL", "LOW">>

-----------------------------------------------------------------------------
(* BandarmologyService.analyze_order_book *)

\* orders[:n]
Take(orders, n) == SubSeq(orders, 1, Min(n, Len(orders)))

\* [float(order[1]) for order in orders]
VolumesOf(orders) == [i \in 1..Len(orders) |-> orders[i][2]]

\* sum(values)
RECURSIVE Sum(_)
Sum(values) == IF values = <<>> THEN 0 ELSE Head(values) + Sum(Tail(values))

\* x put into the ascending sequence sorted
RECURSIVE Insert(_, _)
Insert(x, sorted) ==
    IF sorted = <<>> THEN <<x>>
    ELSE IF x <= Head(sorted) THEN <<x>> \o sorted
         ELSE <<Head(sorted)>> \o Insert(x, Tail(sorted))

\* the values in ascending order
RECURSIVE Sorted(_)
Sorted(values) ==
    IF values = <<>> THEN <<>> ELSE Insert(Head(values), Sorted(Tail(values)))

\* np.percentile(values, 95) of a non-empty list, as a fraction: the value
\* at position 0.95 * (n - 1) of the sorted list, interpolated linearly
Percentile95(values) ==
    LET sorted == Sorted(values)
        n      == Len(sorted)
        i      == (19 * (n - 1)) \div 20
        rem    == (19 * (n - 1)) % 20
        lower  == sorted[i + 1]
        upper  == sorted[Min(i + 2, n)]
    IN  Frac(20 * lower + rem * (upper - lower), 20)

\* a deliberately wrong variant: only the best level of each side is counted
CalculateImbalanceBestLevel(buy_orders, sell_orders, numeric) ==
    LET buy_volume   == Sum(VolumesOf(Take(buy_orders, 1)))
        sell_volume  == Sum(VolumesOf(Take(sell_orders, 1)))
        total_volume == buy_volume + sell_volume
        pressure     == IF 5 * buy_volume > 3 * total_volume THEN "strong_buy"
                        ELSE IF 20 * buy_volume > 11 * total_volume THEN "buy"
                        ELSE IF 5 * buy_volume < 2 * total_volume THEN "strong_sell"
                        ELSE IF 20 * buy_volume < 9 * total_volume THEN "sell"
                        ELSE "neutral"
    IN  IF ~numeric \/ total_volume = 0
        THEN [ratio |-> <<1, 2>>, pressure |-> "neutral"]
        ELSE [buy_volume  |-> buy_volume,
              sell_volume |-> sell_volume,
              ratio       |-> Frac(buy_volume, total_volume),
              pressure    |-> pressure]

\* a deliberately wrong variant: the thresholds belong to the outer labels
CalculateImbalanceInclusive(buy_orders, sell_orders, numeric) ==
    LET buy_volume   == Sum(VolumesOf(Take(buy_orders, 20)))
        sell_volume  == Sum(VolumesOf(Take(sell_orders, 20)))
        total_volume == buy_volume + sell_volume
        pressure     == IF 5 * buy_volume >= 3 * total_volume THEN "strong_buy"
                        ELSE IF 20 * buy_volume >= 11 * total_volume THEN "buy"
                        ELSE IF 5 * buy_volume <= 2 * total_volume THEN "strong_sell"
                        ELSE IF 20 * buy_volume <= 9 * total_volume THEN "sell"
                        ELSE "neutral"
    IN  IF ~numeric \/ total_volume = 0
        THEN [ratio |-> <<1, 2>>, pressure |-> "neutral"]
        ELSE [buy_volume  |-> buy_volume,
              sell_volume |-> sell_volume,
              ratio       |-> Frac(buy_volume, total_volume),
              pressure    |-> pressure]

\* _calculate_imbalance(buy_orders, sell_orders); numeric: whether float()
\* accepts every entry (if not, the except branch answers)
CalculateImbalance(buy_orders, sell_orders, numeric) ==
    LET buy_volume   == Sum(VolumesOf(Take(buy_orders, 20)))
        sell_volume  == Sum(VolumesOf(Take(sell_orders, 20)))
        total_volume == buy_volume + sell_volume
        \* buy_ratio = buy_volume / total_volume against 0.6, 0.55, 0.4, 0.45
        pressure     == IF 5 * buy_volume > 3 * total_volume THEN "strong_buy"
                        ELSE IF 20 * buy_volume > 11 * total_volume THEN "buy"
                        ELSE IF 5 * buy_volume < 2 * total_volume THEN "strong_sell"
                        ELSE IF 20 * buy_volume < 9 * total_volume THEN "sell"
                        ELSE "neutral"
    IN  IF ~numeric THEN [ratio |-> <<1, 2>>, pressure |-> "neutral"]
        ELSE IF total_volume = 0 THEN [ratio |-> <<1, 2>>, pressure |-> "neutral"]
        ELSE [buy_volume  |-> buy_volume,
              sell_volume |-> sell_volume,
              ratio       |-> Frac(buy_volume, total_volume),
              pressure    |-> pressure]

\* the orders among the first 20 whose volume exceeds 3.0 times the mean
\* volume of the first 50, as {'price': ..., 'volume': ...}
WallsOf(orders) ==
    LET volumes    == VolumesOf(Take(orders, 50))
        IsWall(o)  == IF volumes = <<>> THEN o[2] > 0
                      ELSE o[2] * Len(volumes) > 3 * Sum(volumes)
        walls      == SelectSeq(Take(orders, 20), IsWall)
    IN  [i \in 1..Len(walls) |-> [price |-> walls[i][1], volume |-> walls[i][2]]]

\* _detect_walls(buy_orders, sell_orders)
DetectWalls(buy_orders, sell_orders, numeric) ==
    IF ~numeric
    THEN [buy_walls |-> <<>>, sell_walls |-> <<>>,
          has_buy_wall |-> FALSE, has_sell_wall |-> FALSE]
    ELSE [buy_walls     |-> Take(WallsOf(buy_orders), 5),
          sell_walls    |-> Take(WallsOf(sell_orders), 5),
          has_buy_wall  |-> Len(WallsOf(buy_orders)) > 0,
          has_sell_wall |-> Len(WallsOf(sell_orders)) > 0]

\* _detect_whale_activity(buy_orders, sell_orders)
DetectWhaleActivity(buy_orders, sell_orders, numeric) ==
    LET all_volumes     == VolumesOf(Take(buy_orders, 50))
                           \o VolumesOf(Take(sell_orders, 50))
        whale_threshold == Percentile95(all_volumes)
        IsWhale(v)      == v * whale_threshold[2] >= whale_threshold[1]
        whale_orders    == SelectSeq(all_volumes, IsWhale)
        whale_volume    == Sum(whale_orders)
        total_volume    == Sum(all_volumes)
    IN  IF ~numeric \/ all_volumes = <<>>
        THEN [whale_detected |-> FALSE, whale_percentage |-> Zero]
        ELSE [whale_detected     |-> Len(whale_orders) > 0,
              whale_orders_count |-> Len(whale_orders),
              whale_percentage   |-> IF total_volume > 0
                                     THEN Frac(whale_volume * 100, total_volume)
                                     ELSE Zero,
              whale_threshold    |-> whale_threshold]

\* _analyze_spread(buy_orders, sell_orders)
AnalyzeSpread(buy_orders, sell_orders, numeric) ==
    LET highest_bid == buy_orders[1][1]
        lowest_ask  == sell_orders[1][1]
        spread      == lowest_ask - highest_bid
        \* mid_price = (highest_bid + lowest_ask) / 2
        twice_mid   == highest_bid + lowest_ask
        \* spread_percentage = spread / mid_price * 100 against 0.1 and 0.5
        liquidity   == IF twice_mid > 0
                       THEN IF 2000 * spread < twice_mid THEN "high"
                            ELSE IF 400 * spread < twice_mid THEN "medium"
                            ELSE "low"
                       ELSE "high"
    IN  IF ~numeric
        THEN [spread |-> 0, spread_percentage |-> Zero, liquidity |-> "unknown"]
        ELSE IF buy_orders = <<>> \/ sell_orders = <<>>
        THEN [spread |-> 0, spread_percentage |-> Zero, liquidity |-> "low"]
        ELSE [highest_bid       |-> highest_bid,
              lowest_ask        |-> lowest_ask,
              spread            |-> spread,
              spread_percentage |-> IF twice_mid > 0
                                    THEN Frac(200 * spread, twice_mid) ELSE Zero,
              liquidity         |-> liquidity]

\* _prepare_depth_viz(buy_orders, sell_orders, limit=20)
PrepareDepthViz(buy_orders, sell_orders, numeric) ==
    LET Points(orders) ==
            [i \in 1..Len(Take(orders, 20)) |->
                [price |-> orders[i][1], volume |-> orders[i][2]]]
    IN  IF ~numeric THEN [bids |-> <<>>, asks |-> <<>>]
        ELSE [bids |-> Points(buy_orders), asks |-> Points(sell_orders)]

\* a deliberately wrong variant: only the buy side is required
OrderBookAnalysisBuyOnly(depth_data) ==
    LET buy_orders  == Get(depth_data, "buy", <<>>)
        sell_orders == Get(depth_data, "sell", <<>>)
        numeric     == depth_data.numeric
        analysis    ==
            [order_book_imbalance |-> CalculateImbalance(buy_orders, sell_orders, numeric),
             buy_sell_walls       |-> DetectWalls(buy_orders, sell_orders, numeric),
             whale_activity       |-> DetectWhaleActivity(buy_orders, sell_orders, numeric),
             spread_analysis      |-> AnalyzeSpread(buy_orders, sell_orders, numeric),
             depth_visualization  |-> PrepareDepthViz(buy_orders, sell_orders, numeric)]
    IN  IF depth_data = EmptyMap \/ buy_orders = <<>>
        THEN [error |-> "Insufficient order book data"]
        ELSE Put(analysis, "bandarmology_score",
                 CalculateBandarmologyScore(analysis))

\* what analyze_order_book(depth_data) returns; None and {} are EmptyMap
OrderBookAnalysis(depth_data) ==
    LET buy_orders  == Get(depth_data, "buy", <<>>)
        sell_orders == Get(depth_data, "sell", <<>>)
        numeric     == depth_data.numeric
        analysis    ==
            [order_book_imbalance |-> CalculateImbalance(buy_orders, sell_orders, numeric),
             buy_sell_walls       |-> DetectWalls(buy_orders, sell_orders, numeric),
             whale_activity       |-> DetectWhaleActivity(buy_orders, sell_orders, numeric),
             spread_analysis      |-> AnalyzeSpread(buy_orders, sell_orders, numeric),
             depth_visualization  |-> PrepareDepthViz(buy_orders, sell_orders, numeric)]
    IN  IF depth_data = EmptyMap \/ buy_orders = <<>> \/ sell_orders = <<>>
        THEN [error |-> "Insufficient order book data"]
        ELSE Put(analysis, "bandarmology_score",
                 CalculateBandarmologyScore(analysis))

\* the sides of the order books handed to analyze_order_book: empty, the
\* sides of BookA, one with a wall, one with no volume, and prices that make
\* the spread narrow, medium and wide
BuySides ==
    {<<>>, BookA.buy,
     << <<100, 100>>, <<99, 1>>, <<98, 1>>, <<97, 1>> >>,
     << <<100, 0>> >>,
     << <<10000, 5>> >>}

SellSides ==
    {<<>>, BookA.sell,
     << <<101, 100>>, <<102, 1>>, <<103, 1>>, <<104, 1>> >>,
     << <<101, 0>> >>,
     << <<10001, 5>> >>,
     << <<10030, 5>> >>}

\* depth_data: both sides, one side missing, and nothing at all
DepthData ==
    {[buy |-> b, sell |-> a, numeric |-> x] :
        b \in BuySides, a \in SellSides, x \in BOOLEAN}
    \cup {[buy |-> b, numeric |-> TRUE] : b \in BuySides}
    \cup {[sell |-> a, numeric |-> TRUE] : a \in SellSides}
    \cup {EmptyMap}

\* analyze_order_book(depth_data)
AnalyzeOrderBook ==
    /\ call.fn = "none"
    /\ \E depth_data \in DepthData :
          /\ call' = [fn |-> "analyze_order_book", arg |-> depth_data]
          /\ ret' = OrderBookAnalysis(depth_data)
    /\ UNCHANGED <<cacheVars, localVars, rateVars, requestVars>>

-----------------------------------------------------------------------------
(* TechnicalAnalysisService.analyze. TA-Lib is not part of the repository:
   the last value of each indicator it computes is an input of the model. *)

\* Python's None, and a number
None == [none |-> TRUE]
Some(n) == [v |-> n]

\* the truth value Python gives an optional number: None and 0 are false
Truthy(x) == "v" \in DOMAIN x /\ x.v # 0

\* calculate_rsi(close, period=14): None without TA-Lib, for a short history
\* and for a NaN
CalculateRsi(close, talib) ==
    IF ~talib.available \/ Len(close) < 14 THEN None ELSE talib.rsi

\* calculate_macd(close)
CalculateMacd(close, talib) ==
    IF ~talib.available \/ Len(close) < 26 THEN None
    ELSE [macd      |-> talib.macd,
          signal    |-> talib.signal,
          histogram |-> IF talib.macd = None \/ talib.signal = None THEN None
                        ELSE Some(talib.macd.v - talib.signal.v)]

\* the keys of calculate_moving_averages and their periods
MovingAveragePeriods ==
    [sma_7 |-> 7, sma_25 |-> 25, sma_99 |-> 99, ema_12 |-> 12, ema_26 |-> 26]

\* calculate_moving_averages(close)
CalculateMovingAverages(close, talib) ==
    IF ~talib.available THEN EmptyMap
    ELSE [key \in {x \in DOMAIN MovingAveragePeriods :
                     Len(close) >= MovingAveragePeriods[x]} |-> talib.ma]

\* calculate_bollinger_bands(close, period=20)
CalculateBollingerBands(close, talib) ==
    IF ~talib.available \/ Len(close) < 20 THEN None
    ELSE [upper |-> talib.upper, middle |-> talib.middle, lower |-> talib.lower]

\* calculate_volume_analysis(volume)
CalculateVolumeAnalysis(volume) ==
    LET current_volume == volume[Len(volume)]
        window         == IF Len(volume) >= 20
                          THEN SubSeq(volume, Len(volume) - 19, Len(volume))
                          ELSE volume
        total          == Sum(window)
    IN  IF Len(volume) < 2 THEN EmptyMap
        ELSE [current_volume |-> current_volume,
              avg_volume_20  |-> Frac(total, Len(window)),
              volume_ratio   |-> IF total > 0
                                 THEN Frac(current_volume * Len(window), total)
                                 ELSE Zero,
              volume_trend   |-> IF current_volume * Len(window) > total
                                 THEN "increasing" ELSE "decreasing"]

\* _generate_signals(analysis)
GenerateSignals(analysis) ==
    LET rsi           == Get(analysis, "rsi", None)
        macd_data     == Get(analysis, "macd", None)
        ma_data       == Get(analysis, "moving_averages", EmptyMap)
        current_price == Get(analysis, "current_price", 0)
        sma_25        == Get(ma_data, "sma_25", None)
        bb_data       == Get(analysis, "bollinger_bands", None)
    IN  [rsi_signal  |-> IF Truthy(rsi)
                         THEN IF rsi.v < 30 THEN "oversold"
                              ELSE IF rsi.v > 70 THEN "overbought" ELSE "neutral"
                         ELSE "neutral",
         macd_signal |-> IF macd_data # None /\ Truthy(macd_data.macd)
                            /\ Truthy(macd_data.signal)
                         THEN IF macd_data.macd.v > macd_data.signal.v
                              THEN "bullish" ELSE "bearish"
                         ELSE "neutral",
         ma_signal   |-> IF current_price # 0 /\ Truthy(sma_25)
                         THEN IF current_price > sma_25.v
                              THEN "bullish" ELSE "bearish"
                         ELSE "neutral",
         bb_signal   |-> IF current_price # 0 /\ bb_data # None
                         THEN IF Truthy(bb_data.lower) /\ current_price < bb_data.lower.v
                              THEN "oversold"
                              ELSE IF Truthy(bb_data.upper)
                                      /\ current_price > bb_data.upper.v
                                   THEN "overbought" ELSE "neutral"
                         ELSE "neutral"]

\* what analyze(ohlcv_data, current_price) returns
TechnicalAnalysis(ohlcv_data, current_price, talib) ==
    LET close    == [i \in 1..Len(ohlcv_data) |-> ohlcv_data[i].close]
        volume   == [i \in 1..Len(ohlcv_data) |-> ohlcv_data[i].volume]
        analysis == [current_price   |-> current_price,
                     rsi             |-> CalculateRsi(close, talib),
                     macd            |-> CalculateMacd(close, talib),
                     moving_averages |-> CalculateMovingAverages(close, talib),
                     bollinger_bands |-> CalculateBollingerBands(close, talib),
                     volume_analysis |-> CalculateVolumeAnalysis(volume)]
        signalled == Put(analysis, "signals", GenerateSignals(analysis))
    IN  IF ohlcv_data = <<>> THEN [error |-> "No data available for analysis"]
        ELSE Put(signalled, "technical_score", CalculateTechnicalScore(signalled))

\* a history of n candles
History(n) ==
    [i \in 1..n |-> [open |-> 100, high |-> 100, low |-> 100, close |-> 100,
                     volume |-> 10 * i]]

\* the lengths of the histories: none, and around the periods of the indicators
HistoryLengths == {0, 1, 2, 13, 14, 19, 20, 25, 26, 99}

CurrentPrices == {0, 90, 100, 110}

\* what TA-Lib computes, NaN being None; without TA-Lib, nothing
TalibRuns ==
    {[available |-> TRUE, rsi |-> r, macd |-> m[1], signal |-> m[2], ma |-> a,
      upper |-> b[1], middle |-> b[2], lower |-> b[3]] :
        r \in {None, Some(0), Some(25), Some(50), Some(75)},
        m \in {<<None, None>>, <<Some(2), Some(1)>>, <<Some(1), Some(2)>>,
               <<Some(0), Some(1)>>, <<Some(1), Some(1)>>},
        a \in {None, Some(100)},
        b \in {<<None, None, None>>, <<Some(105), Some(100), Some(95)>>,
               <<Some(105), Some(50), Some(0)>>}}
    \cup {[available |-> FALSE, rsi |-> None, macd |-> None, signal |-> None,
           ma |-> None, upper |-> None, middle |-> None, lower |-> None]}

\* analyze(ohlcv_data, current_price)
Analyze ==
    /\ call.fn = "none"
    /\ \E n \in HistoryLengths, current_price \in CurrentPrices,
          talib \in TalibRuns :
            /\ call' = [fn  |-> "analyze",
                        arg |-> <<History(n), current_price, talib>>]
            /\ ret' = TechnicalAnalysis(History(n), current_price, talib)
    /\ UNCHANGED <<cacheVars, localVars, rateVars, requestVars>>

-----------------------------------------------------------------------------
(* RecommendationService.generate_recommendation *)

\* round(x, 2) of the fraction x >= 0: to the nearest hundredth, ties to even
Round2(x) ==
    LET q == (x[1] * 100) \div x[2]
        r == (x[1] * 100) % x[2]
    IN  IF 2 * r > x[2] \/ (2 * r = x[2] /\ q % 2 = 1)
        THEN Frac(q + 1, 100) ELSE Frac(q, 100)

\* a deliberately wrong variant: the three scores are added without weights
TotalScoreUnweighted(technical_score, bandarmology_score, momentum_score) ==
    Frac(technical_score + bandarmology_score + momentum_score, 1)

\* technical_score * 0.4 + bandarmology_score * 0.4 + momentum_score * 0.2
TotalScore(technical_score, bandarmology_score, momentum_score) ==
    Frac(4 * technical_score + 4 * bandarmology_score + 2 * momentum_score, 10)

\* a deliberately wrong variant: the volatility is looked at before the extremes of the score
AssessRiskVolatilityFirst(total_score, market_data) ==
    LET n      == total_score[1]
        d      == total_score[2]
        price  == Get(market_data, "price_change_24h", Num(0))
        change == Abs(price.v)
    IN  IF price.float /\ change > 15 THEN "HIGH"
        ELSE IF price.float /\ change > 10 THEN "MEDIUM"
        ELSE IF n > 80 * d \/ n < 20 * d THEN "HIGH"
        ELSE IF 40 * d <= n /\ n <= 60 * d THEN "LOW"
        ELSE "MEDIUM"

\* RecommendationService._assess_risk(total_score, market_data); the bare
\* except skips the volatility test when float() raises
AssessRisk(total_score, market_data) ==
    LET n      == total_score[1]
        d      == total_score[2]
        price  == Get(market_data, "price_change_24h", Num(0))
        change == Abs(price.v)
    IN  IF n > 80 * d \/ n < 20 * d THEN "HIGH"
        ELSE IF price.float /\ change > 15 THEN "HIGH"
        ELSE IF price.float /\ change > 10 THEN "MEDIUM"
        ELSE IF 40 * d <= n /\ n <= 60 * d THEN "LOW"
        ELSE "MEDIUM"

\* the dictionary generate_recommendation returns, without its texts
Recommendation(technical_analysis, bandarmology_analysis, market_data) ==
    LET technical_score    == Get(technical_analysis, "technical_score", 20)
        bandarmology_score == Get(bandarmology_analysis, "bandarmology_score", 20)
        momentum_score     == CalculateMomentumScore(market_data)
        total_score        == TotalScore(technical_score, bandarmology_score,
                                         momentum_score)
        decided            == DetermineAction(total_score)
    IN  [action      |-> decided[1],
         confidence  |-> decided[2],
         total_score |-> Round2(total_score),
         breakdown   |-> [technical_score    |-> Round2(Frac(technical_score, 1)),
                          bandarmology_score |-> Round2(Frac(bandarmology_score, 1)),
                          momentum_score     |-> Round2(Frac(momentum_score, 1))],
         risk_level  |-> AssessRisk(total_score, market_data)]

\* the results of TechnicalAnalysisService.analyze that reach
\* generate_recommendation: a score, or the no-data result
TechnicalResults ==
    {[technical_score |-> CalculateTechnicalScore(a)] : a \in TechnicalAnalyses}
    \cup {[error |-> "No data available for analysis"]}

\* the results of BandarmologyService.analyze_order_book likewise
BandarmologyResults ==
    {[bandarmology_score |-> CalculateBandarmologyScore(a)] :
        a \in BandarmologyAnalyses}
    \cup {[error |-> "Insufficient order book data"]}

\* market data whose average volume, where given, is 10
RecommendationMarketData ==
    {md \in MarketData :
        "avg_volume" \in DOMAIN md => md.avg_volume = Num(10)}

\* generate_recommendation(technical_analysis, bandarmology_analysis, market_data)
GenerateRecommendation ==
    /\ call.fn = "none"
    /\ \E technical_analysis \in TechnicalResults,
          bandarmology_analysis \in BandarmologyResults,
          market_data \in RecommendationMarketData :
            /\ call' = [fn  |-> "generate_recommendation",
                        arg |-> <<technical_analysis, bandarmology_analysis,
                                  market_data>>]
            /\ ret' = Recommendation(technical_analysis, bandarmology_analysis,
                                     market_data)
    /\ UNCHANGED <<cacheVars, localVars, rateVars, requestVars>>

NextAnalysis ==
    \/ GenerateRecommendation
    \/ AnalyzeOrderBook
    \/ Analyze
    \/ Taken

SpecAnalysis == Init /\ [][NextAnalysis]_vars

\* C22: analyze labels every indicator value that is present, a value of 0
\* included: rsi_signal is oversold for RSI < 30 and overbought for RSI > 70;
\* macd_signal is bullish if the MACD line is above the signal line and
\* bearish otherwise, when both are present; ma_signal is bullish if the price
\* is above SMA(25) and bearish otherwise, when SMA(25) is present; bb_signal
\* is oversold below the lower band and overbought above the upper band; a
\* signal is neutral only when its indicator is absent or inside its band.
C22_SignalsLabelEveryPresentValue ==
    (call.fn = "analyze" /\ "signals" \in DOMAIN ret) =>
        LET price == ret.current_price
            rsi   == ret.rsi
            macd  == ret.macd
            sma   == Get(ret.moving_averages, "sma_25", None)
            bb    == ret.bollinger_bands
        IN  /\ ret.signals.rsi_signal =
                  IF rsi = None THEN "neutral"
                  ELSE IF rsi.v < 30 THEN "oversold"
                  ELSE IF rsi.v > 70 THEN "overbought" ELSE "neutral"
            /\ ret.signals.macd_signal =
                  IF macd = None THEN "neutral"
                  ELSE IF macd.macd = None \/ macd.signal = None THEN "neutral"
                  ELSE IF macd.macd.v > macd.signal.v THEN "bullish"
                  ELSE "bearish"
            /\ ret.signals.ma_signal =
                  IF sma = None THEN "neutral"
                  ELSE IF price > sma.v THEN "bullish" ELSE "bearish"
            /\ ret.signals.bb_signal =
                  IF bb = None THEN "neutral"
                  ELSE IF bb.lower # None /\ price < bb.lower.v THEN "oversold"
                  ELSE IF bb.upper # None /\ price > bb.upper.v THEN "overbought"
                  ELSE "neutral"

\* C23: analyze reports an indicator only for a history that is as long as
\* the indicator's period, and leaves it null or absent for a shorter one:
\* RSI needs 14 closes, MACD 26, SMA(p) and EMA(p) p, the Bollinger bands 20
\* and the 20-period volume average and ratio 20 volumes.
C23_IndicatorsNeedTheirPeriod ==
    (call.fn = "analyze" /\ "error" \notin DOMAIN ret) =>
        LET n == Len(call.arg[1])
        IN  /\ n < 14 => ret.rsi = None
            /\ n < 26 => ret.macd = None
            /\ \A key \in DOMAIN ret.moving_averages :
                  n < MovingAveragePeriods[key] =>
                      ret.moving_averages[key] = None
            /\ n < 20 => ret.bollinger_bands = None
            /\ n < 20 => /\ "avg_volume_20" \notin DOMAIN ret.volume_analysis
                         /\ "volume_ratio" \notin DOMAIN ret.volume_analysis

-----------------------------------------------------------------------------
(* RecommendationService._assess_risk applied to total scores over the whole
   of [0, 100] *)

\* total scores at and next to 20, 40, 60 and 80, in hundredths
RiskTotals ==
    {Frac(n, 100) : n \in {0, 1999, 2000, 2001, 3999, 4000, 4001, 5000,
                           6000, 6001, 7999, 8000, 8001, 10000}}

\* market data with a price change at and next to 10 and 15, up and down,
\* with one that is no number, and without one
RiskMarketData ==
    {[price_change_24h |-> pr] :
        pr \in {Num(n) : n \in {-16, -15, -11, -10, 0, 10, 11, 15, 16}}
                  \cup {NotANumber}}
    \cup {EmptyMap}

AssessRiskStep ==
    /\ call.fn = "none"
    /\ \E total_score \in RiskTotals, market_data \in RiskMarketData :
          /\ call' = [fn |-> "_assess_risk",
                      arg |-> [total_score |-> total_score,
                               market_data |-> market_data]]
          /\ ret' = AssessRisk(total_score, market_data)
    /\ UNCHANGED <<cacheVars, localVars, rateVars, requestVars>>

NextRisk == AssessRiskStep \/ Taken

SpecRisk == Init /\ [][NextRisk]_vars

\* C28: _assess_risk returns one of HIGH, MEDIUM and LOW for every input,
\* by the first of these rules that applies: HIGH for a total above 80 or
\* below 20; HIGH for a 24h price change of more than 15 either way, MEDIUM
\* for one of more than 10; LOW for a total from 40 to 60; MEDIUM.
C28_RiskRulesInOrder ==
    call.fn = "_assess_risk" =>
        LET n       == call.arg.total_score[1]
            d       == call.arg.total_score[2]
            price   == Get(call.arg.market_data, "price_change_24h", Num(0))
            change  == IF ~price.float THEN 0
                       ELSE IF price.v < 0 THEN -price.v ELSE price.v
            extreme == n > 80 * d \/ n < 20 * d
        IN  /\ ret \in {"HIGH", "MEDIUM", "LOW"}
            /\ extreme => ret = "HIGH"
            /\ (~extreme /\ change > 15) => ret = "HIGH"
            /\ (~extreme /\ change > 10 /\ change <= 15) => ret = "MEDIUM"
            /\ (~extreme /\ change <= 10 /\ 40 * d <= n /\ n <= 60 * d)
                  => ret = "LOW"
            /\ (~extreme /\ change <= 10 /\ (n < 40 * d \/ n > 60 * d))
                  => ret = "MEDIUM"

C28_ExtremeScoreBeforeVolatility ==
    /\ call.fn = "_assess_risk"
    /\ call.arg.total_score = <<8001, 100>>
    /\ call.arg.market_data = [price_change_24h |-> Num(-11)]
    /\ ret = "HIGH"

-----------------------------------------------------------------------------
(* OrderBookService._process_order_book applied to the depth answers the
   exchange can give *)

\* [price, volume] entries: zero, positive and negative numbers
DepthOrders == {<<p, v>> : p \in {0, 100, -100}, v \in {0, 5}}

\* a side of the book: no entry, one or two
DepthSides == UNION {[1..n -> DepthOrders] : n \in {0, 1, 2}}

\* depth answers: both keys, one of them only, none; numeric or not
DepthAnswers ==
    UNION {{[buy |-> b, sell |-> a, numeric |-> f],
            [buy |-> b, numeric |-> f],
            [sell |-> a, numeric |-> f],
            [numeric |-> f]} :
           b \in DepthSides, a \in DepthSides, f \in BOOLEAN}

ProcessOrderBookStep ==
    /\ call.fn = "none"
    /\ \E data \in DepthAnswers :
          /\ call' = [fn |-> "_process_order_book", arg |-> data]
          /\ ret' = ProcessOrderBook(data)
    /\ UNCHANGED <<cacheVars, localVars, rateVars, requestVars>>

NextSummary == ProcessOrderBookStep \/ Taken

SpecSummary == Init /\ [][NextSummary]_vars

\* the prices and volumes of an order list are all non-negative
NonNegative(orders) ==
    \A n \in 1..Len(orders) : orders[n][1] >= 0 /\ orders[n][2] >= 0

\* C18: _process_order_book answers every depth answer with a summary, all
\* of whose ratios have a non-zero denominator; buy_sell_ratio is 0 whenever
\* the total sell-side value is 0, spread_percent is 0 whenever the buy side
\* has no entry, and when no price and no volume is negative no total amount
\* and no total value of the summary is negative.
C18_NoZeroDenominator ==
    call.fn = "_process_order_book" =>
        LET buy_orders  == Get(call.arg, "buy", <<>>)
            sell_orders == Get(call.arg, "sell", <<>>)
        IN  /\ DOMAIN ret = DOMAIN EmptyOrderBook
            /\ ret.buy_sell_ratio[2] > 0
            /\ ret.spread_percent[2] > 0
            /\ ret.total_sell_value = 0 => ret.buy_sell_ratio = Zero
            /\ buy_orders = <<>> => ret.spread_percent = Zero
            /\ (NonNegative(buy_orders) /\ NonNegative(sell_orders)) =>
                  /\ ret.total_buy_amount >= 0
                  /\ ret.total_sell_amount >= 0
                  /\ ret.total_buy_value >= 0
                  /\ ret.total_sell_value >= 0

C18_SellSideWithoutValue ==
    /\ call.fn = "_process_order_book"
    /\ call.arg.numeric
    /\ "sell" \in DOMAIN call.arg
    /\ call.arg.sell = << <<100, 0>> >>
    /\ "buy" \notin DOMAIN call.arg
    /\ ret.total_sell_orders = 1
    /\ ret.lowest_ask = 100
    /\ ret.buy_sell_ratio = Zero
    /\ ret.spread_percent = Zero

\* C13: analyze_order_book answers an order book whose buy side or sell side
\* is empty or missing with the insufficient-data result, which carries an
\* error and no score; analyze answers an empty history with the no-data
\* result.
C13_InsufficientDataIsAResult ==
    /\ (/\ call.fn = "analyze_order_book"
        /\ \/ "buy" \notin DOMAIN call.arg
           \/ "sell" \notin DOMAIN call.arg
           \/ call.arg.buy = <<>>
           \/ call.arg.sell = <<>>)
          => /\ DOMAIN ret = {"error"}
             /\ ret.error = "Insufficient order book data"
    /\ (call.fn = "analyze" /\ call.arg[1] = <<>>)
          => /\ DOMAIN ret = {"error"}
             /\ ret.error = "No data available for analysis"

\* C13 witness: an order book with bids and no asks got the insufficient-data
\* result
C13_EmptyAsksAnswered ==
    /\ call.fn = "analyze_order_book"
    /\ call.arg = [buy |-> BookA.buy, sell |-> <<>>, numeric |-> TRUE]
    /\ "error" \in DOMAIN ret

\* C14: for bids [[100,50],[99,30]] and asks [[101,10],[102,5]] the imbalance
\* ratio is 80/(80+15), the pressure strong_buy and the bandarmology score 30:
\* no wall, +5 for the whale share and -5 for the wide spread cancel out.
C14_ExampleOrderBookScores30 ==
    (call.fn = "analyze_order_book" /\ call.arg = BookA) =>
        /\ ret.order_book_imbalance.ratio[1] * (80 + 15)
              = 80 * ret.order_book_imbalance.ratio[2]
        /\ ret.order_book_imbalance.pressure = "strong_buy"
        /\ ~ret.buy_sell_walls.has_buy_wall
        /\ ~ret.buy_sell_walls.has_sell_wall
        /\ ret.whale_activity.whale_detected
        /\ ret.whale_activity.whale_percentage[1]
              > 30 * ret.whale_activity.whale_percentage[2]
        /\ ret.spread_analysis.liquidity = "low"
        /\ ret.bandarmology_score = 20 + 10

\* C14 witness: the example order book was analysed, with that score
C14_ExampleAnalysed ==
    /\ call.fn = "analyze_order_book"
    /\ call.arg = BookA
    /\ ret.bandarmology_score = 30
    /\ ret.whale_activity.whale_threshold = <<47, 1>>

\* C11: the total score of a recommendation is 0.4*technical +
\* 0.4*bandarmology + 0.2*momentum; with the components in [0,40], [0,40] and
\* [0,20] it lies in [0,36], and the action is WEAK_SELL, SELL or STRONG_SELL.
C11_TotalAtMost36NeverBuyOrHold ==
    call.fn = "generate_recommendation" =>
        LET t == Get(call.arg[1], "technical_score", 20)
            b == Get(call.arg[2], "bandarmology_score", 20)
            m == ret.breakdown.momentum_score
            total == ret.total_score
        IN  (t \in 0..40 /\ b \in 0..40 /\ m[1] >= 0 /\ m[1] <= 20 * m[2]) =>
              /\ 10 * total[1] * m[2] = (4 * t + 4 * b) * m[2] * total[2]
                                          + 2 * m[1] * total[2]
              /\ total[1] >= 0
              /\ total[1] <= 36 * total[2]
              /\ ret.action \in {"WEAK_SELL", "SELL", "STRONG_SELL"}

\* C11 witness: the three components at their maxima give 36 and WEAK_SELL
C11_AllMaximaGive36 ==
    /\ call.fn = "generate_recommendation"
    /\ call.arg[1] = [technical_score |-> 40]
    /\ call.arg[2] = [bandarmology_score |-> 40]
    /\ ret.breakdown.momentum_score = <<20, 1>>
    /\ ret.total_score = <<36, 1>>
    /\ ret.action = "WEAK_SELL"

-----------------------------------------------------------------------------
(* BandarmologyService._detect_walls applied to sides of up to 60 levels *)

\* A side of n levels, best price first: the levels at the places of walls
\* hold 100, the level at the place heavy holds 200, every other level 1.
WallSide(n, walls, heavy) ==
    [i \in 1..n |->
        <<1000 - i, IF i = heavy THEN 200 ELSE IF i \in walls THEN 100 ELSE 1>>]

WallSides ==
    {WallSide(n, walls, heavy) :
        n \in {0, 1, 20, 50, 60},
        walls \in {{}, {1}, 1..5, 1..6, {2, 20}, {3, 21}, {51, 52, 53, 54}},
        heavy \in {0, 6, 20}}

DetectWallsStep ==
    /\ call.fn = "none"
    /\ \E buy_orders \in WallSides, sell_orders \in WallSides,
          numeric \in BOOLEAN :
          /\ call' = [fn |-> "_detect_walls",
                      arg |-> [buy |-> buy_orders, sell |-> sell_orders,
                               numeric |-> numeric]]
          /\ ret' = DetectWalls(buy_orders, sell_orders, numeric)
    /\ UNCHANGED <<cacheVars, localVars, rateVars, requestVars>>

NextWalls == DetectWallsStep \/ Taken

SpecWalls == Init /\ [][NextWalls]_vars

\* the places among the first 20 of a side whose volume exceeds 3 times the
\* average volume of the first 50 levels of the side
WallPlaces(orders) ==
    LET top == Take(orders, 50)
    IN  {i \in 1..Len(Take(orders, 20)) :
            orders[i][2] * Len(top) > 3 * Sum(VolumesOf(top))}

\* reported holds the 5 largest by volume of the levels of orders at places
\* (all of them if they are 5 or fewer) and nothing else
FiveLargest(reported, orders, places) ==
    LET Level(i) == [price |-> orders[i][1], volume |-> orders[i][2]]
        chosen   == {i \in places : \E j \in 1..Len(reported) :
                                       reported[j] = Level(i)}
    IN  /\ Len(reported) = Min(5, Cardinality(places))
        /\ Cardinality(chosen) = Len(reported)
        /\ \A i \in chosen : \A u \in places \ chosen :
              orders[i][2] >= orders[u][2]

\* C21: on each side, the walls _detect_walls reports are the 5 largest by
\* volume of the levels among the side's first 20 whose volume exceeds 3
\* times the side's average over its first 50, and has_buy_wall and
\* has_sell_wall say whether there is such a level.
C21_WallsAreTheFiveLargest ==
    (call.fn = "_detect_walls" /\ call.arg.numeric) =>
        /\ FiveLargest(ret.buy_walls, call.arg.buy, WallPlaces(call.arg.buy))
        /\ FiveLargest(ret.sell_walls, call.arg.sell, WallPlaces(call.arg.sell))
        /\ ret.has_buy_wall <=> WallPlaces(call.arg.buy) # {}
        /\ ret.has_sell_wall <=> WallPlaces(call.arg.sell) # {}

-----------------------------------------------------------------------------
(* BandarmologyService._calculate_imbalance applied to sides of up to 25
   levels *)

\* a side of n levels: the best level holds the volume first, every other
\* level the volume 1
ImbalanceSide(n, first) ==
    [i \in 1..n |-> <<1000 - i, IF i = 1 THEN first ELSE 1>>]

ImbalanceSides ==
    {ImbalanceSide(n, first) :
        n \in {0, 1, 20, 25},
        first \in {0, 1, 20, 21, 25, 26, 35, 36, 40, 41, 45, 55, 60}}

CalculateImbalanceStep ==
    /\ call.fn = "none"
    /\ \E buy_orders \in ImbalanceSides, sell_orders \in ImbalanceSides,
          numeric \in BOOLEAN :
          /\ call' = [fn |-> "_calculate_imbalance",
                      arg |-> [buy |-> buy_orders, sell |-> sell_orders,
                               numeric |-> numeric]]
          /\ ret' = CalculateImbalance(buy_orders, sell_orders, numeric)
    /\ UNCHANGED <<cacheVars, localVars, rateVars, requestVars>>

NextImbalance == CalculateImbalanceStep \/ Taken

SpecImbalance == Init /\ [][NextImbalance]_vars

\* C25: with buy and sell the volumes of the first 20 levels of each side,
\* _calculate_imbalance returns the ratio buy / (buy + sell), or 1/2 and
\* neutral when the total is 0; the pressure is strong_buy for a ratio above
\* 0.6, buy above 0.55, strong_sell below 0.4, sell below 0.45 and neutral
\* otherwise: the ratios 0.6, 0.55, 0.45 and 0.4 themselves give buy,
\* neutral, neutral and sell.
C25_ImbalanceThresholds ==
    (call.fn = "_calculate_imbalance" /\ call.arg.numeric) =>
        LET buy   == Sum(VolumesOf(Take(call.arg.buy, 20)))
            sell  == Sum(VolumesOf(Take(call.arg.sell, 20)))
            total == buy + sell
        IN  IF total = 0
            THEN ret.ratio = <<1, 2>> /\ ret.pressure = "neutral"
            ELSE /\ ret.ratio[1] * total = buy * ret.ratio[2]
                 /\ 100 * buy > 60 * total => ret.pressure = "strong_buy"
                 /\ (100 * buy <= 60 * total /\ 100 * buy > 55 * total)
                       => ret.pressure = "buy"
                 /\ 100 * buy < 40 * total => ret.pressure = "strong_sell"
                 /\ (100 * buy >= 40 * total /\ 100 * buy < 45 * total)
                       => ret.pressure = "sell"
                 /\ (100 * buy >= 45 * total /\ 100 * buy <= 55 * total)
                       => ret.pressure = "neutral"
                 /\ ret.ratio = <<3, 5>> => ret.pressure = "buy"
                 /\ ret.ratio = <<11, 20>> => ret.pressure = "neutral"
                 /\ ret.ratio = <<9, 20>> => ret.pressure = "neutral"
                 /\ ret.ratio = <<2, 5>> => ret.pressure = "sell"

C25_RatioAtSixTenthsIsBuy ==
    /\ call.fn = "_calculate_imbalance"
    /\ call.arg.numeric
    /\ call.arg.buy = ImbalanceSide(25, 41)
    /\ call.arg.sell = ImbalanceSide(25, 21)
    /\ ret.ratio = <<3, 5>>
    /\ ret.pressure = "buy"

-----------------------------------------------------------------------------
(* validate_pair_id and the route /api/v1/ticker/<pair_id>. A string is the
   sequence of its characters. *)

\* the characters str.strip() removes
Whitespace == {" ", "\n"}

\* str.strip()
RECURSIVE LStrip(_)
LStrip(s) ==
    IF s # <<>> /\ Head(s) \in Whitespace THEN LStrip(Tail(s)) ELSE s

RECURSIVE RStrip(_)
RStrip(s) ==
    IF s # <<>> /\ s[Len(s)] \in Whitespace
    THEN RStrip(SubSeq(s, 1, Len(s) - 1))
    ELSE s

Strip(s) == LStrip(RStrip(s))

\* [a-z0-9]
LowerAlnum ==
    {"a", "b", "c", "d", "e", "f", "g", "h", "i", "j", "k", "l", "m",
     "n", "o", "p", "q", "r", "s", "t", "u", "v", "w", "x", "y", "z",
     "0", "1", "2", "3", "4", "5", "6", "7", "8", "9"}

\* re.match(r'^[a-z0-9]{5,20}$', s) on a string without a line end at its end
RECURSIVE MatchesRun(_, _)
MatchesRun(s, n) ==
    IF s = <<>> THEN n >= 5
    ELSE /\ Head(s) \in LowerAlnum
         /\ n < 20
         /\ MatchesRun(Tail(s), n + 1)

MatchesPairId(s) == MatchesRun(s, 0)

\* the two ways validate_pair_id ends
ValidationError(message) == [raised |-> "ValidationError", message |-> message]

ReturnValue(v) == [raised |-> "none", value |-> v]

\* a deliberately wrong variant: the identifier is lower-cased and not trimmed
ValidatePairIdUntrimmed(pair_id) ==
    IF pair_id = <<>>
    THEN ValidationError("Pair ID is required")
    ELSE IF ~MatchesPairId(Lower(pair_id))
         THEN ValidationError("Invalid pair ID format")
         ELSE ReturnValue(Lower(pair_id))

\* validate_pair_id(pair_id)
ValidatePairId(pair_id) ==
    IF pair_id = <<>>
    THEN ValidationError("Pair ID is required")
    ELSE LET lowered == Strip(Lower(pair_id))
         IN  IF ~MatchesPairId(lowered)
             THEN ValidationError("Invalid pair ID format")
             ELSE ReturnValue(lowered)

\* What a ticker lookup yields, in the cache manager or at the exchange:
\* nothing (None), an empty dictionary, a ticker.
NoTicker == "None"

EmptyTicker == "{}"

SomeTicker == "ticker"

\* The route get_ticker(pair_id): cached_value is what the cache manager holds
\* under the key of the pair, answer what IndodaxService.get_ticker returns if
\* it is asked. requests counts the calls of IndodaxService.get_ticker, each
\* of which is one request to the exchange.
GetTicker(pair_id, cached_value, answer) ==
    LET validated == ValidatePairId(pair_id)
        hit       == cached_value # NoTicker
        ticker    == IF hit THEN cached_value ELSE answer
        asked     == IF hit THEN 0 ELSE 1
    IN  IF validated.raised = "ValidationError"
        THEN [status |-> 400, success |-> FALSE, requests |-> 0]
        ELSE IF ticker \in {NoTicker, EmptyTicker}
             THEN [status |-> 404, success |-> FALSE, requests |-> asked]
             ELSE [status |-> 200, success |-> TRUE, requests |-> asked]

\* the identifiers the functions are applied to: a run of one character, with
\* or without another character at one of its ends, between paddings
Repeat(ch, n) == [i \in 1..n |-> ch]

BodyLengths == {0, 1, 4, 5, 6, 19, 20, 21}

OddCharacters == {"!", " ", "_", "R"}

Bodies ==
    UNION {{Repeat(ch, n)} \cup
           {[Repeat(ch, n) EXCEPT ![i] = c] :
                i \in {1, n} \cap (1..n), c \in OddCharacters} :
           ch \in {"b", "B", "1"}, n \in BodyLengths}

Paddings == {<<>>, <<" ">>, <<"\n", " ">>}

PairIdInputs == {l \o b \o r : l \in Paddings, b \in Bodies, r \in Paddings}

ValidatePairIdStep ==
    /\ call.fn = "none"
    /\ \E pair_id \in PairIdInputs :
          /\ call' = [fn |-> "validate_pair_id", arg |-> pair_id]
          /\ ret' = ValidatePairId(pair_id)
    /\ UNCHANGED <<cacheVars, localVars, rateVars, requestVars>>

\* a request for /ticker/<pair_id>; the route matches no empty pair_id
GetTickerStep ==
    /\ call.fn = "none"
    /\ \E pair_id \in PairIdInputs \ {<<>>},
          cached_value \in {NoTicker, EmptyTicker, SomeTicker},
          answer \in {NoTicker, SomeTicker} :
          /\ call' = [fn |-> "get_ticker",
                      arg |-> [pair_id |-> pair_id,
                               cached_value |-> cached_value,
                               answer |-> answer]]
          /\ ret' = GetTicker(pair_id, cached_value, answer)
    /\ UNCHANGED <<cacheVars, localVars, rateVars, requestVars>>

NextValidate == ValidatePairIdStep \/ GetTickerStep \/ Taken

SpecValidate == Init /\ [][NextValidate]_vars

\* the identifier, trimmed and lower-cased, is 5 to 20 characters of [a-z0-9]
WellFormed(form) ==
    /\ Len(form) >= 5
    /\ Len(form) <= 20
    /\ \A n \in 1..Len(form) : form[n] \in LowerAlnum

\* C19: validate_pair_id returns the trimmed, lower-cased form of the
\* identifier when that form is 5 to 20 characters of [a-z0-9] and raises
\* ValidationError when it is not; the ticker route answers an identifier
\* whose form is not so with status 400 and success false, and has asked the
\* exchange nothing.
C19_ValidPairIdsOnly ==
    /\ call.fn = "validate_pair_id" =>
          LET form == Strip(Lower(call.arg))
          IN  IF WellFormed(form)
              THEN ret = ReturnValue(form)
              ELSE ret.raised = "ValidationError"
    /\ call.fn = "get_ticker" =>
          LET form == Strip(Lower(call.arg.pair_id))
          IN  ~WellFormed(form) =>
                /\ ret.status = 400
                /\ ~ret.success
                /\ ret.requests = 0

C19_PaddedUpperCaseAccepted ==
    /\ call.fn = "validate_pair_id"
    /\ call.arg = <<" ", "B", "B", "B", "B", "B", "\n", " ">>
    /\ ret = ReturnValue(<<"b", "b", "b", "b", "b">>)

-----------------------------------------------------------------------------
(* Properties of OrderBookService *)

\* the threads with a request for pair p in flight
FetchingThreads(p) ==
    {t \in Threads : \E j \in 1..Len(tasks[t]) :
        tasks[t][j].pair = p /\ tasks[t][j].st = "inflight"}

\* the pairs of the model, lower-cased
Pairs == {Lower(p) : p \in RawPairs}

\* the summaries of the well-formed order books
GoodSummaries == {ProcessOrderBook(BookA), ProcessOrderBook(BookB)}

\* thread t executes lines 83-89 in this step
StoreStep(t) == pc[t] = "store" /\ (pc'[t] # "store" \/ k'[t] # k[t])

\* thread t executes the assignment of line 90 in this step
StampStep(t) == pc[t] = "stamp" /\ pc'[t] # "stamp"

\* thread t executes one round of the cache-check loop in this step
CheckStep(t) == pc[t] = "check" /\ (pc'[t] # "check" \/ idx'[t] # idx[t])

\* fetch_order_books returns in this step
ReturnStep(t) ==
    pc[t] # "done" /\ pc'[t] = "done" /\ op'[t] = "fetch_order_books"

\* C1: at any moment at most one caller has a depth request for a given pair
\* in flight: a second caller that misses on the pair waits for the first
\* caller's fetch instead of sending its own.
C1_OneFetchInFlightPerPair ==
    \A p \in Pairs : Cardinality(FetchingThreads(p)) <= 1

\* C2: when the fetch for a pair fails and the cache holds a summary of an
\* earlier successful fetch of that pair, storing the outcome leaves the
\* cached summary and its timestamp as they were.
C2_FailedFetchKeepsGoodEntry ==
    [][\A t \in Threads :
        (pc[t] \in {"store", "stamp"} /\ ~tasks[t][k[t]].ok) =>
          LET pair == tasks[t][k[t]].pair
          IN  /\ (StoreStep(t) /\ pair \in DOMAIN cache
                               /\ cache[pair] \in GoodSummaries)
                    => cache'[pair] = cache[pair]
              /\ (StampStep(t) /\ pair \in DOMAIN cache_timestamps)
                    => cache_timestamps'[pair] = cache_timestamps[pair]]_vars

C4_TimestampNeverDecreases ==
    [][\A p \in DOMAIN cache_timestamps :
        /\ p \in DOMAIN cache_timestamps'
        /\ cache_timestamps'[p] >= cache_timestamps[p]]_vars

\* C5: fetch_order_books returns a mapping whose keys are exactly the
\* lower-cased requested pairs, whatever the outcomes of the fetches; the value
\* of a fetched pair is the empty summary if its fetch failed (or the fetch
\* loop raised before fetching) and its processed summary if its fetch
\* succeeded, whatever happened to the other pairs of the batch.
C5_ReturnsEveryPairByItsOwnOutcome ==
    [][\A t \in Threads : ReturnStep(t) =>
        /\ DOMAIN result'[t] = {Lower(pairs[t][n]) : n \in 1..Len(pairs[t])}
        /\ \A j \in 1..Len(tasks[t]) :
              (/\ tasks[t][j].st = "done"
               /\ \A i \in (j + 1)..Len(tasks[t]) :
                     tasks[t][i].pair # tasks[t][j].pair)
              => LET pair == tasks[t][j].pair
                 IN  /\ pair \in DOMAIN result'[t]
                     /\ tasks[t][j].ok =>
                           /\ result'[t][pair] = tasks[t][j].out.value
                           /\ result'[t][pair] \in GoodSummaries
                     /\ ~tasks[t][j].ok =>
                           result'[t][pair] = EmptyOrderBook
        /\ pc[t] = "sync" =>
              \A n \in 1..Len(pairs_to_fetch[t]) :
                 /\ pairs_to_fetch[t][n] \in DOMAIN result'[t]
                 /\ result'[t][pairs_to_fetch[t][n]] = EmptyOrderBook]_vars

\* C5 witness: a call has returned the empty summary for one pair and a
\* processed summary for the other, both fetched in the same batch
C5_MixedBatchReturned ==
    \E t \in Threads :
        /\ pc[t] = "done" /\ op[t] = "fetch_order_books"
        /\ DOMAIN result[t] = {btcidr, ethidr}
        /\ result[t][btcidr] = EmptyOrderBook
        /\ result[t][ethidr] \in GoodSummaries
        /\ cache_timestamps = [p \in {btcidr, ethidr} |-> now]

\* C6: when the fetch of a pair that has no cache entry fails, the empty
\* summary is what the call gets for the pair and what is stored as the
\* pair's entry; a successful fetch stores exactly the processed summary of
\* the answer, whatever the entry was before.
C6_EmptyCachedThenReplaced ==
    [][\A t \in Threads : StoreStep(t) =>
        LET task == tasks[t][k[t]]
        IN  /\ (~task.ok /\ task.pair \notin DOMAIN cache) =>
                  /\ task.pair \in DOMAIN cache'
                  /\ cache'[task.pair] = EmptyOrderBook
                  /\ task.pair \in DOMAIN all_results'[t]
                  /\ all_results'[t][task.pair] = EmptyOrderBook
            /\ task.ok =>
                  /\ task.pair \in DOMAIN cache'
                  /\ cache'[task.pair] = task.out.value
                  /\ cache'[task.pair] \in GoodSummaries]_vars

\* C6 witness: the entry of a pair is the empty summary of a failed fetch and
\* a later call is about to store a successful fetch of the pair
C6_EmptyEntryAboutToBeReplaced ==
    \E t \in Threads :
        /\ pc[t] = "store"
        /\ tasks[t][k[t]].ok
        /\ tasks[t][k[t]].pair \in DOMAIN cache_timestamps
        /\ cache[tasks[t][k[t]].pair] = EmptyOrderBook
        /\ cache_timestamps[tasks[t][k[t]].pair] < now

\* C7: a pair that has an entry in cache or in cache_timestamps has one in
\* every later state.
C7_EntriesNeverRemoved ==
    [][/\ DOMAIN cache \subseteq DOMAIN cache'
       /\ DOMAIN cache_timestamps \subseteq DOMAIN cache_timestamps']_vars

\* C7 witness: a pair's entry is stale, a refresh of it has failed and
\* another one is in flight, and the entry is still there
C7_StaleEntryKept ==
    \E p \in Pairs :
        /\ p \in DOMAIN cache /\ p \in DOMAIN cache_timestamps
        /\ now - cache_timestamps[p] >= 30
        /\ cache[p] = EmptyOrderBook
        /\ FetchingThreads(p) # {}


\* the scheduler's worker enters fetch_and_cache_all
WarmStep(t) == pc[t] = "idle" /\ op'[t] = "fetch_and_cache_all"

\* the coroutine of a warm starts its first batch
WarmFetchStep(t) ==
    op[t] = "fetch_and_cache_all" /\ pc[t] = "sync" /\ pc'[t] = "gather"

\* the pairs whose request is in flight for thread t
InFlight(t) ==
    {tasks[t][n].pair : n \in {m \in 1..Len(tasks[t]) : tasks[t][m].st = "inflight"}}

\* C12: a warm that has obtained the pair list sends a request for every
\* listed pair, whether or not the pair's entry is fresh; a warm that cannot
\* obtain the list sends none, leaves the cache as it is and returns.
C12_WarmFetchesEveryListedPair ==
    [][\A t \in {"t1"} :
          /\ WarmStep(t) =>
                \/ /\ pc'[t] = "sync"
                   /\ pairs_to_fetch'[t] = <<btcidr, ethidr>>
                \/ /\ pc'[t] = "done"
                   /\ pairs_to_fetch'[t] = <<>>
                   /\ tasks'[t] = NoTasks
                   /\ cache' = cache
                   /\ cache_timestamps' = cache_timestamps
          /\ WarmFetchStep(t) =>
                /\ Len(tasks'[t]) = Len(pairs_to_fetch[t])
                /\ \A n \in 1..Len(tasks'[t]) :
                      /\ tasks'[t][n].pair = pairs_to_fetch[t][n]
                      /\ tasks'[t][n].st = "inflight"
          /\ (op[t] = "fetch_and_cache_all" /\ pc[t] = "done") =>
                /\ cache' = cache
                /\ cache_timestamps' = cache_timestamps
                /\ pc'[t] \in {"done", "idle"}]_vars

\* C12 witness: the warm has a request in flight for a pair whose entry is fresh
C12_FreshPairRefetchedByWarm ==
    /\ op["t1"] = "fetch_and_cache_all"
    /\ pc["t1"] = "gather"
    /\ btcidr \in InFlight("t1")
    /\ IsPairCacheValid(cache_timestamps, btcidr, now)
    /\ cache[btcidr] # EmptyOrderBook

\* C29: in every state, the states between the steps of concurrent fetches
\* included, every pair with a timestamp in cache_timestamps has a summary
\* in cache; so a pair that _is_pair_cache_valid judges fresh at line 33 has
\* a cached summary and the default of the lookup of line 34 is not used.
C29_StampedPairsAreCached ==
    /\ \A p \in DOMAIN cache_timestamps : p \in DOMAIN cache
    /\ \A t \in Threads :
          (/\ pc[t] = "check"
           /\ IsPairCacheValid(cache_timestamps, Lower(pairs[t][idx[t]]), now))
             => Lower(pairs[t][idx[t]]) \in DOMAIN cache

\* one thread is between line 89 and line 90 for a pair that the other
\* thread, at line 33, finds fresh
C29_FreshWhileBeingStored ==
    \E t \in Threads, u \in Threads :
        /\ t # u
        /\ pc[t] \in {"clock", "stamp"}
        /\ pc[u] = "check"
        /\ Lower(pairs[u][idx[u]]) = tasks[t][k[t]].pair
        /\ IsPairCacheValid(cache_timestamps, Lower(pairs[u][idx[u]]), now)

\* C17: when the deadline of a fetch runs out, the call answers for that pair
\* with the best data available: the cached summary if the cache holds a good
\* one for the pair, however old, and the empty summary otherwise. (Under
\* SpecDeadline a fetch fails in no other way than by its deadline.)
C17_DeadlineAnswersWithBestAvailable ==
    [][\A t \in {"t1"} :
        (op[t] = "fetch_order_books" /\ StoreStep(t) /\ ~tasks[t][k[t]].ok) =>
          LET pair == tasks[t][k[t]].pair
              best == IF pair \in DOMAIN cache /\ cache[pair] \in GoodSummaries
                      THEN cache[pair]
                      ELSE EmptyOrderBook
          IN  all_results'[t][pair] = best]_vars

\* thread t starts the fetches of a batch in this step (lines 79-80)
StartStep(t) == pc[t] # "gather" /\ pc'[t] = "gather"

\* C20: one call of _fetch_order_books_async fetches its pairs in consecutive
\* groups of at most 50. The fetches of a group start together, after every
\* fetch of the group before has completed and been stored and the pause
\* after that group is over; at most 50 fetches are in flight; the call
\* pauses only when another group follows, never after the last one.
C20_BatchesOfAtMostFifty ==
    [][LET t       == "t1"
           first   == IF pc[t] = "sync" THEN 1 ELSE bstart[t] + Len(tasks[t])
           left    == Len(pairs_to_fetch[t]) - (first - 1)
           started == {j \in 1..Len(tasks'[t]) : tasks'[t][j].st = "inflight"}
       IN  /\ Cardinality(started) <= 50
           /\ StartStep(t) =>
                 /\ pc[t] \in {"sync", "pause"}
                 /\ \A j \in 1..Len(tasks[t]) : tasks[t][j].st = "done"
                 /\ pc[t] = "pause" => k[t] = Len(tasks[t])
                 /\ bstart'[t] = first
                 /\ Len(tasks'[t]) = IF left < 50 THEN left ELSE 50
                 /\ \A j \in 1..Len(tasks'[t]) :
                       /\ tasks'[t][j].pair = pairs_to_fetch[t][first + j - 1]
                       /\ tasks'[t][j].st = "inflight"
           /\ (pc[t] # "pause" /\ pc'[t] = "pause") =>
                 /\ pc[t] \in {"store", "stamp"}
                 /\ k[t] = Len(tasks[t])
                 /\ bstart[t] + Len(tasks[t]) <= Len(pairs_to_fetch[t])
           /\ (pc[t] = "pause" /\ pc'[t] # "pause") => pc'[t] = "gather"
           /\ (pc[t] # "finish" /\ pc'[t] = "finish") =>
                 /\ pc[t] \in {"store", "stamp"}
                 /\ bstart[t] + Len(tasks[t]) = Len(pairs_to_fetch[t]) + 1]_vars

C20_SecondBatchInFlight ==
    /\ pc["t1"] = "gather"
    /\ Len(pairs_to_fetch["t1"]) = MaxBatchPairs
    /\ bstart["t1"] = 51
    /\ Len(tasks["t1"]) = 50
    /\ \A j \in 1..50 : tasks["t1"][j].st = "inflight"
    /\ PairNo(50) \in DOMAIN cache
    /\ PairNo(51) \notin DOMAIN cache


\* C30: within one fetch_order_books call each lower-cased pair is fetched
\* at most once, also when the argument names the pair several times or in
\* different letter cases: no two tasks of the call are for the same pair.
C30_EachPairFetchedOnce ==
    \A t \in Threads :
        op[t] = "fetch_order_books" =>
            \A i \in DOMAIN tasks[t], j \in DOMAIN tasks[t] :
                tasks[t][i].pair = tasks[t][j].pair => i = j

=============================================================================
